---- MODULE Spec2Model ----
(***************************************************************************)
(* A model of load_and_clean_data (src/data_processor.py): the parser that *)
(* reshapes a wide, day-blocked timesheet grid into long-format records.   *)
(*                                                                         *)
(* Text is modelled as a sequence of one-character strings, so trimming,   *)
(* lower-casing, substring tests and numeric parsing are computed on the   *)
(* characters, the way the Python code computes them. Column and row       *)
(* indices are 0-based as in the source; At(row, k) reads position k.      *)
(***************************************************************************)
EXTENDS Integers, Sequences, FiniteSets, TLC

VARIABLES
    file,               \* the source handed to load_and_clean_data
    pc,                 \* position of the call: load, prep, scan, rows, post,
                        \* done (returned), raised (an exception left the call)
    df_raw,             \* grid returned by pd.read_csv (sequence of rows of cells)
    data,               \* data rows after forward-fill and dropna
    current_date_str,   \* date label inherited during the column scan
    c,                  \* column about to be scanned
    col_map,            \* role map, in insertion order: [col, date, field]
    r,                  \* index in data of the row about to be reconstructed
    processed_rows,     \* entries emitted so far
    origin,             \* history: the data row (reset index) behind each entry
    result,             \* the pair returned: [df, msg]
    calls,              \* number of calls started on this file
    previous,           \* the pair returned by the call before the current one
    edit,               \* history: the cell replaced in the source, if any
    base                \* history: the pair returned before the replacement

vars ==
    <<file, pc, df_raw, data, current_date_str, c, col_map, r,
      processed_rows, origin, result, calls, previous, edit, base>>

----------------------------------------------------------------------------
(* Python values that are not text. A text is a sequence of one-character  *)
(* strings, so these one-element sequences are distinct from every text.   *)

NaN == <<"<NaN>">>
None == <<"<None>">>
IntZero == <<"<int 0>">>
EmptyText == <<>>

IsText(x) ==
    x \notin {NaN, None, IntZero}

Str(x) ==
    IF x = NaN THEN <<"n","a","n">>
    ELSE IF x = None THEN <<"N","o","n","e">>
    ELSE IF x = IntZero THEN <<"0">>
    ELSE x

isna(x) ==
    x \in {NaN, None}

At(row, k) ==
    row[k + 1]

----------------------------------------------------------------------------
(* Text operations *)

Whitespace == {" ", "\t", "\n", "\r"}

RECURSIVE LStrip(_)
LStrip(s) ==
    IF s # <<>> /\ Head(s) \in Whitespace THEN LStrip(Tail(s)) ELSE s

RECURSIVE RStrip(_)
RStrip(s) ==
    IF s # <<>> /\ s[Len(s)] \in Whitespace
    THEN RStrip(SubSeq(s, 1, Len(s) - 1))
    ELSE s

Strip(s) ==
    RStrip(LStrip(s))

UpperChars ==
    <<"A","B","C","D","E","F","G","H","I","J","K","L","M",
      "N","O","P","Q","R","S","T","U","V","W","X","Y","Z">>

LowerChars ==
    <<"a","b","c","d","e","f","g","h","i","j","k","l","m",
      "n","o","p","q","r","s","t","u","v","w","x","y","z">>

LowerChar(ch) ==
    IF \E i \in DOMAIN UpperChars : UpperChars[i] = ch
    THEN LowerChars[CHOOSE i \in DOMAIN UpperChars : UpperChars[i] = ch]
    ELSE ch

Lower(s) ==
    [i \in DOMAIN s |-> LowerChar(s[i])]

Contains(sub, s) ==
    \E i \in 0..(Len(s) - Len(sub)) : SubSeq(s, i + 1, i + Len(sub)) = sub

RemoveChar(s, ch) ==
    SelectSeq(s, LAMBDA x : x # ch)

\* re: ^\s*$ matches a text made of whitespace only (the empty text included)
MatchesBlank(s) ==
    \A i \in DOMAIN s : s[i] \in Whitespace

----------------------------------------------------------------------------
(* pd.read_csv(file_path, header=None), as far as this program depends on  *)
(* it. A source is [readable, lines]: lines are the records of the file,   *)
(* each a sequence of text fields (quoting is already resolved). Blank     *)
(* lines are skipped, the first record fixes the number of columns, a      *)
(* longer record is a tokenizing error and a shorter one is padded with    *)
(* NaN. A field that is one of the default NA spellings is read as NaN.    *)
(* Every mapped column holds a text sub-header, so its cells stay text     *)
(* (dtype object); numeric dtype inference is not modelled.                *)

NaValues ==
    { <<>>,
      <<"#","N","/","A">>, <<"#","N","/","A"," ","N","/","A">>, <<"#","N","A">>,
      <<"-","1",".","#","I","N","D">>, <<"-","1",".","#","Q","N","A","N">>,
      <<"-","N","a","N">>, <<"-","n","a","n">>,
      <<"1",".","#","I","N","D">>, <<"1",".","#","Q","N","A","N">>,
      <<"<","N","A",">">>, <<"N","/","A">>, <<"N","A">>, <<"N","U","L","L">>,
      <<"N","a","N">>, <<"N","o","n","e">>, <<"n","/","a">>, <<"n","a","n">>,
      <<"n","u","l","l">> }

NaConv(field) ==
    IF field \in NaValues THEN NaN ELSE field

IsBlankLine(line) ==
    line = <<>> \/ line = <<EmptyText>>

read_csv_empty_frame(f) ==
    LET kept == SelectSeq(f.lines, LAMBDA l : ~IsBlankLine(l))
        ncols == Len(kept[1])
    IN  IF ~f.readable \/ kept = <<>>
        THEN [ok |-> TRUE, err |-> "", grid |-> <<>>]
        ELSE [ok |-> TRUE, err |-> "",
              grid |-> [i \in DOMAIN kept |->
                          [j \in 1..ncols |->
                              IF j <= Len(kept[i]) THEN NaConv(kept[i][j]) ELSE NaN]]]

read_csv(f) ==
    LET kept == SelectSeq(f.lines, LAMBDA l : ~IsBlankLine(l))
        ncols == Len(kept[1])
    IN  IF ~f.readable
        THEN [ok |-> FALSE, err |-> "[Errno 2] No such file or directory", grid |-> <<>>]
        ELSE IF kept = <<>>
        THEN [ok |-> FALSE, err |-> "No columns to parse from file", grid |-> <<>>]
        ELSE IF \E i \in DOMAIN kept : Len(kept[i]) > ncols
        THEN [ok |-> FALSE, err |-> "Error tokenizing data", grid |-> <<>>]
        ELSE [ok |-> TRUE, err |-> "",
              grid |-> [i \in DOMAIN kept |->
                          [j \in 1..ncols |->
                              IF j <= Len(kept[i]) THEN NaConv(kept[i][j]) ELSE NaN]]]

----------------------------------------------------------------------------
(* Layout constants of the grid (0-based, as in the source) *)

date_row_idx == 1
header_row_idx == 2
data_start_idx == 3
first_day_col == 7
employee_col == 1
location_col == 2

----------------------------------------------------------------------------
(* Field classification of a sub-header (the if/elif chain) *)

NoField == "<no field>"

\* the chain of lines 84-99 tried from its last test to its first
FieldOfLastMatch(header_val) ==
    IF Contains(<<"D","e","s","c","r","i","p","t","i","o","n">>, header_val)
    THEN "Description"
    ELSE IF \/ Contains(<<"W","o","r","k"," ","T","i","m","e">>, header_val)
            \/ Contains(<<"M","i","n","s">>, header_val)
    THEN "Work Time (Mins)"
    ELSE IF Contains(<<"E","n","d">>, header_val)
    THEN "End Time"
    ELSE IF Contains(<<"S","t","a","r","t">>, header_val)
    THEN "Start Time"
    ELSE IF Contains(<<"T","a","s","k"," ","P","r","i","o","r","i","t","y">>, header_val)
    THEN "Task Priority"
    ELSE IF Contains(<<"A","c","t","i","v","i","t","y"," ","C","a","t","e","g","o","r","y">>,
                     header_val)
    THEN "Activity Category"
    ELSE IF Contains(<<"A","t","t","e","n","d","a","n","c","e">>, header_val)
    THEN "Attendance_Status"
    ELSE NoField

FieldOf(header_val) ==
    IF Contains(<<"A","t","t","e","n","d","a","n","c","e">>, header_val)
    THEN "Attendance_Status"
    ELSE IF Contains(<<"A","c","t","i","v","i","t","y"," ","C","a","t","e","g","o","r","y">>,
                     header_val)
    THEN "Activity Category"
    ELSE IF Contains(<<"T","a","s","k"," ","P","r","i","o","r","i","t","y">>, header_val)
    THEN "Task Priority"
    ELSE IF Contains(<<"S","t","a","r","t">>, header_val)
    THEN "Start Time"
    ELSE IF Contains(<<"E","n","d">>, header_val)
    THEN "End Time"
    ELSE IF \/ Contains(<<"W","o","r","k"," ","T","i","m","e">>, header_val)
            \/ Contains(<<"M","i","n","s">>, header_val)
    THEN "Work Time (Mins)"
    ELSE IF Contains(<<"D","e","s","c","r","i","p","t","i","o","n">>, header_val)
    THEN "Description"
    ELSE NoField

----------------------------------------------------------------------------
(* float(text): optional surrounding whitespace, an optional sign, then    *)
(* decimal digits with at most one point, or one of the literals inf,      *)
(* infinity, nan in any letter case. Anything else is a ValueError.        *)
(* Exponents and digit-group underscores are not modelled. A number is     *)
(* the exact rational n/d with d a power of ten, in lowest such form.      *)

Digits == <<"0","1","2","3","4","5","6","7","8","9">>

IsDigit(ch) ==
    \E i \in DOMAIN Digits : Digits[i] = ch

DigitVal(ch) ==
    (CHOOSE i \in DOMAIN Digits : Digits[i] = ch) - 1

RECURSIVE DigitsValue(_)
DigitsValue(s) ==
    IF s = <<>> THEN 0
    ELSE 10 * DigitsValue(SubSeq(s, 1, Len(s) - 1)) + DigitVal(s[Len(s)])

RECURSIVE Pow10(_)
Pow10(k) ==
    IF k = 0 THEN 1 ELSE 10 * Pow10(k - 1)

RECURSIVE Lowest(_, _)
Lowest(n, d) ==
    IF d > 1 /\ n % 10 = 0 THEN Lowest(n \div 10, d \div 10) ELSE <<n, d>>

Num(n, d) ==
    [kind |-> "num", n |-> Lowest(n, d)[1], d |-> Lowest(n, d)[2]]

Zero == Num(0, 1)
PosInf == [kind |-> "inf", n |-> 1, d |-> 1]
NegInf == [kind |-> "inf", n |-> -1, d |-> 1]
FloatNaN == [kind |-> "nan", n |-> 0, d |-> 1]
ValueError == [kind |-> "ValueError", n |-> 0, d |-> 1]

IsDecimal(b) ==
    /\ \A i \in DOMAIN b : IsDigit(b[i]) \/ b[i] = "."
    /\ Len(SelectSeq(b, LAMBDA x : x = ".")) <= 1
    /\ \E i \in DOMAIN b : IsDigit(b[i])

PointAt(b) ==
    IF \E i \in DOMAIN b : b[i] = "."
    THEN CHOOSE i \in DOMAIN b : b[i] = "."
    ELSE Len(b)

ParseFloat(s) ==
    LET t == Strip(s)
        signed == t # <<>> /\ t[1] \in {"+", "-"}
        sign == IF t # <<>> /\ t[1] = "-" THEN -1 ELSE 1
        body == IF signed THEN Tail(t) ELSE t
        low == Lower(body)
    IN  IF low \in {<<"i","n","f">>, <<"i","n","f","i","n","i","t","y">>}
        THEN (IF sign = 1 THEN PosInf ELSE NegInf)
        ELSE IF low = <<"n","a","n">>
        THEN FloatNaN
        ELSE IF IsDecimal(body)
        THEN Num(sign * DigitsValue(RemoveChar(body, ".")),
                 Pow10(Len(body) - PointAt(body)))
        ELSE ValueError

clean_minutes_keeping_commas(x) ==
    IF isna(x) \/ Strip(Str(x)) = EmptyText
    THEN Zero
    ELSE LET p == ParseFloat(Str(x))
         IN  IF p = ValueError THEN Zero ELSE p

(* clean_minutes(x) *)
clean_minutes(x) ==
    IF isna(x) \/ Strip(Str(x)) = EmptyText
    THEN Zero
    ELSE LET p == ParseFloat(RemoveChar(Str(x), ","))
         IN  IF p = ValueError THEN Zero ELSE p

----------------------------------------------------------------------------
(* check_billable(cat) *)

billable_keywords ==
    << <<"T","r","a","i","n","i","n","g">>,
       <<"A","s","s","e","s","s","m","e","n","t">>,
       <<"C","o","n","t","e","n","t">>,
       <<"D","e","v","e","l","o","p","m","e","n","t">> >>

check_billable_exact_case(cat) ==
    \E i \in DOMAIN billable_keywords : Contains(billable_keywords[i], Str(cat))

check_billable(cat) ==
    LET cat_str == Lower(Str(cat))
    IN  \E i \in DOMAIN billable_keywords : Contains(Lower(billable_keywords[i]), cat_str)

----------------------------------------------------------------------------
(* Dictionaries (task_data, an entry): functions from keys to values *)

PutIfAbsent(d, k, v) ==
    [x \in (DOMAIN d) \cup {k} |-> IF x \in DOMAIN d THEN d[x] ELSE v]

Put(d, k, v) ==
    [x \in (DOMAIN d) \cup {k} |-> IF x = k THEN v ELSE d[x]]

Get(d, k, default) ==
    IF k \in DOMAIN d THEN d[k] ELSE default

Truthy(x) ==
    x # None /\ x # EmptyText

----------------------------------------------------------------------------
(* Lines 33-48: the data rows, blank identity cells made NaN, identity     *)
(* columns forward-filled, rows without an employee dropped. A data row    *)
(* is [idx, row]: idx is its index after reset_index (source row idx + 3). *)

NRows(g) ==
    Len(g)

NCols(g) ==
    IF g = <<>> THEN 0 ELSE Len(g[1])

KeepBlank(x) ==
    x

ReplaceBlank(x) ==
    IF IsText(x) /\ MatchesBlank(x) THEN NaN ELSE x

ReplaceBlankCol(rows, k) ==
    [i \in DOMAIN rows |-> [rows[i] EXCEPT ![k + 1] = ReplaceBlank(@)]]

RECURSIVE ffill(_, _, _)
ffill(rows, k, last) ==
    IF rows = <<>> THEN <<>>
    ELSE LET v == At(Head(rows), k)
             filled == IF isna(v) THEN last ELSE v
         IN  <<[Head(rows) EXCEPT ![k + 1] = filled]>> \o ffill(Tail(rows), k, filled)

KeepRows(rows, k) ==
    rows

dropna(rows, k) ==
    SelectSeq(rows, LAMBDA d : ~isna(At(d.row, k)))

CleanDataFromHeaderRow(g) ==
    LET sliced == SubSeq(g, header_row_idx + 1, Len(g))
        blanked == ReplaceBlankCol(ReplaceBlankCol(sliced, employee_col), location_col)
        filled == ffill(ffill(blanked, employee_col, NaN), location_col, NaN)
        indexed == [i \in DOMAIN filled |-> [idx |-> i - 1, row |-> filled[i]]]
    IN  dropna(indexed, employee_col)

\* a fill of the location column that starts anew at every employee cell
RECURSIVE ffillPerEmployee(_, _)
ffillPerEmployee(rows, last) ==
    IF rows = <<>> THEN <<>>
    ELSE LET v == At(Head(rows), location_col)
             above == IF isna(At(Head(rows), employee_col)) THEN last ELSE NaN
             filled == IF isna(v) THEN above ELSE v
         IN  <<[Head(rows) EXCEPT ![location_col + 1] = filled]>>
                 \o ffillPerEmployee(Tail(rows), filled)

CleanDataLocationPerEmployee(g) ==
    LET sliced == SubSeq(g, data_start_idx + 1, Len(g))
        blanked == ReplaceBlankCol(ReplaceBlankCol(sliced, employee_col), location_col)
        filled == ffill(ffillPerEmployee(blanked, NaN), employee_col, NaN)
        indexed == [i \in DOMAIN filled |-> [idx |-> i - 1, row |-> filled[i]]]
    IN  dropna(indexed, employee_col)

CleanData(g) ==
    LET sliced == SubSeq(g, data_start_idx + 1, Len(g))
        blanked == ReplaceBlankCol(ReplaceBlankCol(sliced, employee_col), location_col)
        filled == ffill(ffill(blanked, employee_col, NaN), location_col, NaN)
        indexed == [i \in DOMAIN filled |-> [idx |-> i - 1, row |-> filled[i]]]
    IN  dropna(indexed, employee_col)

PrepErrorWithoutDataRows(g) ==
    IF NCols(g) <= employee_col THEN "1"
    ELSE IF NCols(g) <= location_col THEN "2"
    ELSE IF NRows(g) <= data_start_idx THEN "single positional indexer is out-of-bounds"
    ELSE ""

(* The first statement of lines 33-52 that raises, or "" when none does *)
PrepError(g) ==
    IF NCols(g) <= employee_col THEN "1"
    ELSE IF NCols(g) <= location_col THEN "2"
    ELSE IF NRows(g) <= header_row_idx THEN "single positional indexer is out-of-bounds"
    ELSE ""

----------------------------------------------------------------------------
(* Lines 76-102: one iteration of the column scan *)

\* a scan whose current date starts from the last label left of the day columns
ScanDateSeededLeft(g, col, cur) ==
    LET val == Strip(Str(At(g[date_row_idx + 1], col)))
        left == { k \in 0..(first_day_col - 1) :
                    LET v == Strip(Str(At(g[date_row_idx + 1], k)))
                    IN  v # EmptyText /\ Lower(v) # <<"n","a","n">> }
        seed == IF cur = None /\ left # {}
                THEN Strip(Str(At(g[date_row_idx + 1],
                                  CHOOSE k \in left : \A q \in left : q <= k)))
                ELSE cur
    IN  IF val # EmptyText /\ Lower(val) # <<"n","a","n">> THEN val ELSE seed

\* a scan that takes every non-empty date-axis text for a label
ScanDateOfAnyText(g, col, cur) ==
    LET val == Strip(Str(At(g[date_row_idx + 1], col)))
    IN  IF val # EmptyText THEN val ELSE cur

ScanDate(g, col, cur) ==
    LET val == Strip(Str(At(g[date_row_idx + 1], col)))
    IN  IF val # EmptyText /\ Lower(val) # <<"n","a","n">> THEN val ELSE cur

ScanField(g, col) ==
    FieldOf(Strip(Str(At(g[header_row_idx + 1], col))))

ScanMap(cm, col, cur, field) ==
    IF Truthy(cur) /\ field # NoField
    THEN Append(cm, [col |-> col, date |-> cur, field |-> field])
    ELSE cm

----------------------------------------------------------------------------
(* Lines 117-151: reconstruction of one data row *)

\* bundles kept per run of columns: a label that comes back after another
\* label starts a bundle of its own
RECURSIVE BuildRowTasksPerBlock(_, _, _)
BuildRowTasksPerBlock(row, cm, acc) ==
    IF cm = <<>> THEN acc
    ELSE LET e == Head(cm)
             cell_val == At(row, e.col)
             acc1 == IF acc # <<>> /\ acc[Len(acc)].date = e.date
                     THEN acc
                     ELSE Append(acc, [date |-> e.date, task |-> <<>>])
         IN  BuildRowTasksPerBlock(row, Tail(cm),
                                   [acc1 EXCEPT ![Len(acc1)].task = Put(@, e.field, cell_val)])

RECURSIVE BuildRowTasks(_, _, _)
BuildRowTasks(row, cm, acc) ==
    IF cm = <<>> THEN acc
    ELSE LET e == Head(cm)
             cell_val == At(row, e.col)
             acc1 == IF \E i \in DOMAIN acc : acc[i].date = e.date
                     THEN acc
                     ELSE Append(acc, [date |-> e.date, task |-> <<>>])
             at == CHOOSE i \in DOMAIN acc1 : acc1[i].date = e.date
         IN  BuildRowTasks(row, Tail(cm),
                           [acc1 EXCEPT ![at].task = Put(@, e.field, cell_val)])

IsNanText(s) ==
    Lower(s) = <<"n","a","n">>

\* a filter that keeps a bundle as soon as any of its fields is filled
IsEmptyTaskOfAllFields(task_data) ==
    \A k \in DOMAIN task_data :
        LET text == Strip(Str(task_data[k]))
        IN  text = EmptyText \/ IsNanText(text)

IsEmptyTask(task_data) ==
    LET activity == Strip(Str(Get(task_data, "Activity Category", EmptyText)))
        desc == Strip(Str(Get(task_data, "Description", EmptyText)))
    IN  /\ (activity = EmptyText \/ IsNanText(activity))
        /\ (desc = EmptyText \/ IsNanText(desc))

Entry(emp_name, location, date_str, task_data) ==
    [k \in {"Employee Name", "Location", "Date", "Attendance", "Activity Category",
            "Task Priority", "Start Time", "End Time", "Work Time (Mins)",
            "Description"} |->
        CASE k = "Employee Name" -> emp_name
          [] k = "Location" -> location
          [] k = "Date" -> date_str
          [] k = "Attendance" -> Get(task_data, "Attendance_Status", NaN)
          [] k = "Work Time (Mins)" -> Get(task_data, "Work Time (Mins)", IntZero)
          [] k = "Description" -> Get(task_data, "Description", EmptyText)
          [] OTHER -> Get(task_data, k, NaN)]

\* the row's entries, last date label first
RowEntriesReversed(d, cm) ==
    LET row_tasks == BuildRowTasks(d.row, cm, <<>>)
        kept == SelectSeq(row_tasks, LAMBDA t : ~IsEmptyTask(t.task))
    IN  [i \in DOMAIN kept |->
            Entry(At(d.row, employee_col), At(d.row, location_col),
                  kept[Len(kept) + 1 - i].date, kept[Len(kept) + 1 - i].task)]

RowEntries(d, cm) ==
    LET row_tasks == BuildRowTasks(d.row, cm, <<>>)
        kept == SelectSeq(row_tasks, LAMBDA t : ~IsEmptyTask(t.task))
    IN  [i \in DOMAIN kept |->
            Entry(At(d.row, employee_col), At(d.row, location_col),
                  kept[i].date, kept[i].task)]

----------------------------------------------------------------------------
(* parse_custom_date(d_str), lines 162-168.                                *)
(* re.sub(r'(\d+)(st|nd|rd|th)', r'\1', text): every run of digits that is *)
(* followed by st, nd, rd or th loses that suffix. Then                    *)
(* datetime.strptime(text, "%a, %b %d, %y"): the text must be, from its    *)
(* first to its last character and in any letter case, an abbreviated      *)
(* weekday, a comma, whitespace, an abbreviated month, whitespace, a day   *)
(* 1..31 of one or two digits, a comma, whitespace, and two year digits    *)
(* (00-68 are 2000-2068, 69-99 are 1969-1999); each blank of the format    *)
(* stands for one or more whitespace characters. The weekday is not        *)
(* compared with the date. A day the month does not have, like any         *)
(* mismatch, raises ValueError, which line 167 turns into NaT.             *)

OrdinalSuffixesOnlyTh == { <<"t","h">> }

OrdinalSuffixes == { <<"s","t">>, <<"n","d">>, <<"r","d">>, <<"t","h">> }

RECURSIVE DigitRun(_)
DigitRun(s) ==
    IF s # <<>> /\ IsDigit(Head(s)) THEN 1 + DigitRun(Tail(s)) ELSE 0

RECURSIVE StripOrdinals(_)
StripOrdinals(s) ==
    IF s = <<>> THEN <<>>
    ELSE IF IsDigit(Head(s))
    THEN LET n == DigitRun(s)
             rest == SubSeq(s, n + 1, Len(s))
         IN  SubSeq(s, 1, n) \o
             (IF Len(rest) >= 2 /\ SubSeq(rest, 1, 2) \in OrdinalSuffixes
              THEN StripOrdinals(SubSeq(rest, 3, Len(rest)))
              ELSE StripOrdinals(rest))
    ELSE <<Head(s)>> \o StripOrdinals(Tail(s))

WeekdayAbbr ==
    << <<"m","o","n">>, <<"t","u","e">>, <<"w","e","d">>, <<"t","h","u">>,
       <<"f","r","i">>, <<"s","a","t">>, <<"s","u","n">> >>

MonthAbbr ==
    << <<"j","a","n">>, <<"f","e","b">>, <<"m","a","r">>, <<"a","p","r">>,
       <<"m","a","y">>, <<"j","u","n">>, <<"j","u","l">>, <<"a","u","g">>,
       <<"s","e","p">>, <<"o","c","t">>, <<"n","o","v">>, <<"d","e","c">> >>

IndexIn(seq, x) ==
    IF \E i \in DOMAIN seq : seq[i] = x
    THEN CHOOSE i \in DOMAIN seq : seq[i] = x
    ELSE 0

IsLeap(y) ==
    y % 4 = 0 /\ (y % 100 # 0 \/ y % 400 = 0)

DaysInMonth(y, m) ==
    IF m = 2 THEN (IF IsLeap(y) THEN 29 ELSE 28)
    ELSE IF m \in {4, 6, 9, 11} THEN 30
    ELSE 31

\* regex \s
ReSpace == {" ", "\t", "\n", "\r", "\f"}

RECURSIVE SpaceRun(_)
SpaceRun(s) ==
    IF s # <<>> /\ Head(s) \in ReSpace THEN 1 + SpaceRun(Tail(s)) ELSE 0

NaT == [y |-> 0, m |-> 0, d |-> 0]

\* %d: 3[0-1] | [1-2]\d | 0[1-9] | [1-9], the day digits being those that
\* stand before the comma
DayValue(digits) ==
    LET v == DigitsValue(digits)
    IN  IF Len(digits) \in {1, 2} /\ v >= 1 /\ v <= 31 THEN v ELSE 0

FullYearLastCentury(yy) ==
    1900 + yy

\* %y: POSIX pivot of the two-digit year
FullYear(yy) ==
    IF yy <= 68 THEN 2000 + yy ELSE 1900 + yy

strptime(s) ==
    LET wd == IF Len(s) >= 3 THEN IndexIn(WeekdayAbbr, Lower(SubSeq(s, 1, 3))) ELSE 0
        s1 == SubSeq(s, 4, Len(s))                       \* after %a
        comma1 == s1 # <<>> /\ Head(s1) = ","
        s2 == SubSeq(s1, 2, Len(s1))
        sp1 == SpaceRun(s2)
        s3 == SubSeq(s2, sp1 + 1, Len(s2))               \* at %b
        mon == IF Len(s3) >= 3 THEN IndexIn(MonthAbbr, Lower(SubSeq(s3, 1, 3))) ELSE 0
        s4 == SubSeq(s3, 4, Len(s3))
        sp2 == SpaceRun(s4)
        s5 == SubSeq(s4, sp2 + 1, Len(s4))               \* at %d
        nd == DigitRun(s5)
        day == DayValue(SubSeq(s5, 1, nd))
        s6 == SubSeq(s5, nd + 1, Len(s5))
        comma2 == s6 # <<>> /\ Head(s6) = ","
        s7 == SubSeq(s6, 2, Len(s6))
        sp3 == SpaceRun(s7)
        s8 == SubSeq(s7, sp3 + 1, Len(s7))               \* at %y
        yearOk == Len(s8) = 2 /\ IsDigit(s8[1]) /\ IsDigit(s8[2])
        year == FullYear(DigitsValue(s8))
    IN  IF /\ wd > 0 /\ comma1 /\ sp1 >= 1
           /\ mon > 0 /\ sp2 >= 1
           /\ day > 0 /\ comma2 /\ sp3 >= 1
           /\ yearOk
           /\ day <= DaysInMonth(year, mon)
        THEN [y |-> year, m |-> mon, d |-> day]
        ELSE NaT

parse_custom_date(d_str) ==
    strptime(StripOrdinals(Str(d_str)))

----------------------------------------------------------------------------
(* Lines 171-173: Month (%B), ISO week and day name of a Date_Obj; the     *)
(* three are missing (NaN) for NaT.                                        *)

MonthNames ==
    << "January", "February", "March", "April", "May", "June", "July",
       "August", "September", "October", "November", "December" >>

DayNames ==
    << "Monday", "Tuesday", "Wednesday", "Thursday", "Friday", "Saturday", "Sunday" >>

RECURSIVE DaysBeforeMonth(_, _)
DaysBeforeMonth(y, m) ==
    IF m = 1 THEN 0 ELSE DaysBeforeMonth(y, m - 1) + DaysInMonth(y, m - 1)

DayOfYear(t) ==
    DaysBeforeMonth(t.y, t.m) + t.d

\* date.toordinal(): 1 is 0001-01-01, a Monday
Ordinal(t) ==
    LET p == t.y - 1
    IN  p * 365 + (p \div 4) - (p \div 100) + (p \div 400) + DayOfYear(t)

\* isoweekday: 1 is Monday, 7 is Sunday
IsoWeekday(t) ==
    ((Ordinal(t) + 6) % 7) + 1

WeeksInYear(y) ==
    LET jan1 == IsoWeekday([y |-> y, m |-> 1, d |-> 1])
    IN  IF jan1 = 4 \/ (jan1 = 3 /\ IsLeap(y)) THEN 53 ELSE 52

IsoWeek(t) ==
    LET w == (DayOfYear(t) - IsoWeekday(t) + 10) \div 7
    IN  IF w < 1 THEN WeeksInYear(t.y - 1)
        ELSE IF w > WeeksInYear(t.y) THEN 1
        ELSE w

Month(t) ==
    IF t = NaT THEN "<NaN>" ELSE MonthNames[t.m]

Week(t) ==
    IF t = NaT THEN 0 ELSE IsoWeek(t)

DayOfWeek(t) ==
    IF t = NaT THEN "<NaN>" ELSE DayNames[IsoWeekday(t)]

----------------------------------------------------------------------------
(* Lines 153-201: post-processing of the emitted entries. Computing the    *)
(* date columns raises nothing: parse_custom_date turns every failure into *)
(* NaT, and a column of datetimes and NaT is datetime-like. A missing Week *)
(* (<NA>) is written 0.                                                    *)

Finish(e) ==
    [k \in (DOMAIN e) \cup {"Date_Obj", "Month", "Week", "DayOfWeek", "Is_Billable"} |->
        CASE k = "Date_Obj" -> parse_custom_date(e["Date"])
          [] k = "Month" -> Month(parse_custom_date(e["Date"]))
          [] k = "Week" -> Week(parse_custom_date(e["Date"]))
          [] k = "DayOfWeek" -> DayOfWeek(parse_custom_date(e["Date"]))
          [] k = "Work Time (Mins)" -> clean_minutes(e[k])
          [] k = "Is_Billable" -> check_billable(e["Activity Category"])
          [] OTHER -> e[k]]

EmptyFrame == <<>>

LoadErrorResult(err) ==
    [df |-> EmptyFrame, msg |-> <<"Error loading CSV: ", err>>]

ProcessErrorResult(err) ==
    [df |-> EmptyFrame, msg |-> <<"Error processing data: ", err>>]

NoDataResult ==
    [df |-> EmptyFrame, msg |-> <<"No data found.">>]

PostResultNoEmptyCheck(rows) ==
    [df |-> [i \in DOMAIN rows |-> Finish(rows[i])], msg |-> None]

PostResult(rows) ==
    IF rows = <<>>
    THEN NoDataResult
    ELSE [df |-> [i \in DOMAIN rows |-> Finish(rows[i])], msg |-> None]

----------------------------------------------------------------------------
(* Input sources. Each family varies one aspect of the grid and keeps the  *)
(* rest at the standard timesheet; the families are united in Files.       *)

MaxDataRows == 3    \* data rows of the employee and shape families
MaxCellRows == 2    \* data rows of the location and cell families
MaxLen == 3         \* length of an enumerated Work Time text
MaxCalls == 2       \* calls of load_and_clean_data on one source
MaxDayCols == 2     \* day columns of the axis family

T_D1 == <<"S","a","t",","," ","N","o","v"," ","0","1",","," ","2","5">>
T_D2 == <<"S","u","n",","," ","N","o","v"," ","0","2",","," ","2","5">>
T_Activity == <<"A","c","t","i","v","i","t","y"," ","C","a","t","e","g","o","r","y">>
T_Description == <<"D","e","s","c","r","i","p","t","i","o","n">>
T_WorkTime == <<"W","o","r","k"," ","T","i","m","e"," ","(","M","i","n","s",")">>
T_Training == <<"T","r","a","i","n","i","n","g">>
T_Travel == <<"T","r","a","v","e","l">>
T_Demo == <<"d","e","m","o">>
T_60 == <<"6","0">>
T_Asha == <<"A","s","h","a">>
T_Ravi == <<"R","a","v","i">>
T_Pune == <<"P","u","n","e">>
T_Delhi == <<"D","e","l","h","i">>
T_NAN == <<"N","A","N">>
T_Space == <<" ">>
T_5 == <<"5">>
T_15 == <<"1","5">>

Block1 ==
    << [date |-> T_D1, header |-> T_Activity],
       [date |-> EmptyText, header |-> T_Description],
       [date |-> EmptyText, header |-> T_WorkTime] >>

Block2 ==
    << [date |-> T_D2, header |-> T_Activity],
       [date |-> EmptyText, header |-> T_Description],
       [date |-> EmptyText, header |-> T_WorkTime] >>

NoWorkTimeBlock ==
    << [date |-> T_D1, header |-> T_Activity],
       [date |-> EmptyText, header |-> T_Description] >>

IdentityHeader ==
    << <<"S","l","."," ","N","o",".">>,
       <<"E","m","p","l","o","y","e","e"," ","N","a","m","e">>,
       <<"L","o","c","a","t","i","o","n">>,
       <<"P">>, <<"L">>, <<"A">>, <<"W","O","/","H">> >>

BlankCells(n) ==
    [i \in 1..n |-> EmptyText]

\* a data line: its identity cells, then its day-block cells
DataLine(emp, loc, cells) ==
    <<EmptyText, emp, loc, EmptyText, EmptyText, EmptyText, EmptyText>> \o cells

\* the lines of a grid with the given day-block layout and data lines
MkLines(layout, datalines) ==
    << BlankCells(first_day_col + Len(layout)),
       BlankCells(first_day_col) \o [i \in DOMAIN layout |-> layout[i].date],
       IdentityHeader \o [i \in DOMAIN layout |-> layout[i].header] >>
    \o datalines

MkFile(lines) ==
    [readable |-> TRUE, lines |-> lines]

StdCells == <<T_Training, T_Demo, T_60>>
StdLine(i) ==
    DataLine(IF i % 2 = 1 THEN T_Asha ELSE EmptyText,
             IF i % 2 = 1 THEN T_Pune ELSE EmptyText,
             IF i % 2 = 1 THEN StdCells \o BlankCells(3) ELSE BlankCells(3) \o StdCells)

StdLines(n) ==
    MkLines(Block1 \o Block2, [i \in 1..n |-> StdLine(i)])

Truncate(lines, nr, nc) ==
    [i \in 1..nr |-> SubSeq(lines[i], 1, nc)]

\* shape family: unreadable source, and the standard grid cut to nr rows
\* and nc columns, also with one record one field too long
ShapeFiles ==
    LET full == StdLines(MaxDataRows)
        cut == { Truncate(full, nr, nc) :
                   nr \in 0..Len(full), nc \in 1..Len(full[1]) }
        wide == { l \in cut : Len(l) >= 2 /\ Len(l[1]) = Len(full[1]) }
        jagged == UNION { { [l EXCEPT ![i] = Append(@, T_60)] : i \in 2..Len(l) } :
                          l \in wide }
    IN  {[readable |-> FALSE, lines |-> <<>>]}
        \cup { MkFile(l) : l \in cut }
        \cup { MkFile(l) : l \in jagged }

EmpPool == {EmptyText, T_Space, T_Asha, T_Ravi}
LocPool == {EmptyText, T_Space, T_Pune, T_Delhi}

\* identity family: the employee and location cells of each data row vary
EmployeeFiles ==
    { MkFile(MkLines(Block1, [i \in DOMAIN e |-> DataLine(e[i], T_Pune, StdCells)])) :
        e \in UNION { [1..n -> EmpPool] : n \in 0..MaxDataRows } }

\* location family: the location cell varies, with and without a new employee
LocationFiles ==
    { MkFile(MkLines(Block1, [i \in DOMAIN q |-> DataLine(q[i][1], q[i][2], StdCells)])) :
        q \in UNION { [1..n -> {EmptyText, T_Asha, T_Ravi} \X LocPool] :
                        n \in 1..MaxCellRows } }

CellPool == {EmptyText, T_Space, T_Travel, T_Training, T_NAN}
RowCellPool == {EmptyText, T_Space, T_Travel, T_NAN}

\* cell family: the Activity Category and Description cells of each row vary
CellFiles ==
    { MkFile(MkLines(Block1,
                     [i \in DOMAIN cs |->
                         DataLine(IF i = 1 THEN T_Asha ELSE EmptyText, EmptyText,
                                  <<cs[i][1], cs[i][2], T_60>>)])) :
        cs \in UNION { [1..n -> RowCellPool \X RowCellPool] : n \in 1..MaxCellRows } }

\* two-block family: one row, the cells of two day blocks vary
TwoBlockFiles ==
    { MkFile(MkLines(Block1 \o Block2,
                     <<DataLine(T_Asha, T_Pune,
                                <<q[1], q[2], T_60, q[3], q[4], T_15>>)>>)) :
        q \in CellPool \X CellPool \X CellPool \X CellPool }

WorkTimeChars == {" ", ",", "-", ".", "1", "5", "a"}

WorkTimeTexts ==
    UNION { [1..n -> WorkTimeChars] : n \in 0..MaxLen }
    \cup { <<"1",",","2","5","0">>, <<"a","b","c">>, <<"-","3","0">>,
           <<"1","2",".","5","0">>, <<"+","7">> }

\* coercion family: one row, the Work Time cell varies; also no Work Time column
WorkTimeFiles ==
    { MkFile(MkLines(Block1, <<DataLine(T_Asha, T_Pune, <<T_Training, T_Demo, w>>)>>)) :
        w \in WorkTimeTexts }
    \cup { MkFile(MkLines(NoWorkTimeBlock,
                          <<DataLine(T_Asha, T_Pune, <<T_Training, T_Demo>>)>>)) }

\* date labels put together from parts: each part carries its text and what
\* it stands for (ok, num 0 and year 0: nothing)
WeekdayParts ==
    { [text |-> <<"S","a","t">>, ok |-> TRUE],
      [text |-> <<"s","u","n">>, ok |-> TRUE],
      [text |-> <<"X","y","z">>, ok |-> FALSE] }

MonthParts ==
    { [text |-> <<"F","e","b">>, num |-> 2, days |-> 28],
      [text |-> <<"N","o","v">>, num |-> 11, days |-> 30],
      [text |-> <<"D","E","C">>, num |-> 12, days |-> 31],
      [text |-> <<"F","o","o">>, num |-> 0, days |-> 0] }

DayParts ==
    { [text |-> <<"0","1">>, num |-> 1],
      [text |-> <<"1">>, num |-> 1],
      [text |-> <<"2","9">>, num |-> 29],
      [text |-> <<"3","0">>, num |-> 30],
      [text |-> <<"3","1">>, num |-> 31],
      [text |-> <<"3","2">>, num |-> 0],
      [text |-> <<"0","0">>, num |-> 0] }

SuffixParts == { <<>>, <<"s","t">>, <<"n","d">>, <<"r","d">>, <<"t","h">> }

YearParts ==
    { [text |-> <<"2","5">>, year |-> 2025, leap |-> FALSE],
      [text |-> <<"2","4">>, year |-> 2024, leap |-> TRUE],
      [text |-> <<"6","8">>, year |-> 2068, leap |-> TRUE],
      [text |-> <<"6","9">>, year |-> 1969, leap |-> FALSE],
      [text |-> <<"2","0","2","5">>, year |-> 0, leap |-> FALSE],
      [text |-> <<"5">>, year |-> 0, leap |-> FALSE] }

LabelParts ==
    [wd : WeekdayParts, mon : MonthParts, day : DayParts,
     suf : SuffixParts, yr : YearParts]

LabelText(p) ==
    p.wd.text \o <<",", " ">> \o p.mon.text \o <<" ">> \o p.day.text \o p.suf
    \o <<",", " ">> \o p.yr.text

T_NoWeekday == <<"N","o","v"," ","1","s","t",","," ","2","5">>
T_NoBlank == <<"S","a","t",",","N","o","v"," ","0","1",","," ","2","5">>
T_WideBlanks == <<"S","a","t",","," "," ","N","o","v"," "," ","1",","," "," ","2","5">>
T_Slashes == <<"0","1","/","1","1","/","2","0","2","5">>
T_Holiday == <<"H","o","l","i","d","a","y">>

OtherLabels == {T_NoWeekday, T_NoBlank, T_WideBlanks, T_Slashes, T_Holiday}

DateLayout(label) ==
    << [date |-> label, header |-> T_Activity],
       [date |-> EmptyText, header |-> T_Description],
       [date |-> EmptyText, header |-> T_WorkTime] >>

\* date family: one row under one day block, the date label varies
DateFiles ==
    { MkFile(MkLines(DateLayout(l), <<DataLine(T_Asha, T_Pune, StdCells)>>)) :
        l \in { LabelText(p) : p \in LabelParts } \cup OtherLabels }

T_OnlineTraining == <<"O","n","l","i","n","e"," ","T","r","a","i","n","i","n","g"," ","S","e","s","s","i","o","n">>
T_ContentDevelopment == <<"C","o","n","t","e","n","t"," ","D","e","v","e","l","o","p","m","e","n","t">>
T_AdminSyncUp == <<"A","d","m","i","n"," ","S","y","n","c","-","u","p">>
T_ASSESSMENT == <<"A","S","S","E","S","S","M","E","N","T">>
T_WebDevelopment == <<"W","e","b"," ","d","e","v","e","l","o","p","m","e","n","t">>
T_Train == <<"T","r","a","i","n">>
T_Meeting == <<"M","e","e","t","i","n","g">>

\* Activity Category cells, each with whether it names billable work
Categories ==
    { [text |-> T_OnlineTraining, billable |-> TRUE],
      [text |-> T_ContentDevelopment, billable |-> TRUE],
      [text |-> T_ASSESSMENT, billable |-> TRUE],
      [text |-> T_WebDevelopment, billable |-> TRUE],
      [text |-> T_Training, billable |-> TRUE],
      [text |-> T_Travel, billable |-> FALSE],
      [text |-> T_AdminSyncUp, billable |-> FALSE],
      [text |-> T_Train, billable |-> FALSE],
      [text |-> T_Meeting, billable |-> FALSE],
      [text |-> T_NAN, billable |-> FALSE],
      [text |-> T_Space, billable |-> FALSE],
      [text |-> EmptyText, billable |-> FALSE] }

\* category family: two rows, the Activity Category cell of each varies; the
\* Description is filled, so that a blank category is emitted too
CategoryFiles ==
    { MkFile(MkLines(Block1,
                     << DataLine(T_Asha, T_Pune, <<q[1].text, T_Demo, T_60>>),
                        DataLine(T_Ravi, T_Delhi, <<q[2].text, T_Demo, T_60>>) >>)) :
        q \in Categories \X Categories }

T_D1Padded == <<" ","S","a","t",","," ","N","o","v"," ","0","1",","," ","2","5"," ">>
T_Remarks == <<"R","e","m","a","r","k","s">>

DateAxisPool == {EmptyText, T_Space, T_NAN, T_D1Padded, T_D2}
FieldAxisPool == {T_Activity, T_Remarks}

\* axis family: one row; the date-axis and field-axis cells of each day column
\* vary
AxisFiles ==
    { MkFile(MkLines(layout,
                     <<DataLine(T_Asha, T_Pune, [i \in DOMAIN layout |-> T_Travel])>>)) :
        layout \in UNION { [1..n -> [date : DateAxisPool, header : FieldAxisPool]] :
                             n \in 1..MaxDayCols } }

\* sub-headers, each with the entry field it stands for ("" for none)
SubHeaders ==
    { [text |-> <<"A","t","t","e","n","d","a","n","c","e">>, key |-> "Attendance"],
      [text |-> T_Activity, key |-> "Activity Category"],
      [text |-> <<"T","a","s","k"," ","P","r","i","o","r","i","t","y">>, key |-> "Task Priority"],
      [text |-> <<"S","t","a","r","t"," ","T","i","m","e">>, key |-> "Start Time"],
      [text |-> <<"E","n","d"," ","T","i","m","e">>, key |-> "End Time"],
      [text |-> T_WorkTime, key |-> "Work Time (Mins)"],
      [text |-> <<"M","i","n","s">>, key |-> "Work Time (Mins)"],
      [text |-> T_Description, key |-> "Description"],
      [text |-> <<"S","t","a","r","t"," ","T","i","m","e"," ","(","M","i","n","s",")">>,
       key |-> "Start Time"],
      [text |-> <<"E","n","d"," ","D","e","s","c","r","i","p","t","i","o","n">>,
       key |-> "End Time"],
      [text |-> <<"W","o","r","k"," ","T","i","m","e"," ","D","e","s","c","r","i","p","t","i","o","n">>,
       key |-> "Work Time (Mins)"],
      [text |-> <<"A","t","t","e","n","d","a","n","c","e"," ","S","t","a","r","t">>,
       key |-> "Attendance"],
      [text |-> <<"T","a","s","k"," ","P","r","i","o","r","i","t","y"," ","E","n","d">>,
       key |-> "Task Priority"],
      [text |-> <<"E","n","d","i","n","g">>, key |-> "End Time"],
      [text |-> <<" ","D","e","s","c","r","i","p","t","i","o","n"," ">>, key |-> "Description"],
      [text |-> <<"a","t","t","e","n","d","a","n","c","e">>, key |-> ""],
      [text |-> <<"S","T","A","R","T">>, key |-> ""],
      [text |-> <<"A","c","t","i","v","i","t","y">>, key |-> ""],
      [text |-> <<"W","e","e","k","e","n","d">>, key |-> ""],
      [text |-> T_Remarks, key |-> ""],
      [text |-> EmptyText, key |-> ""] }

\* field family: one row under one day block of two columns, an Activity
\* Category and a column whose sub-header varies
FieldFiles ==
    { MkFile(MkLines(<< [date |-> T_D1, header |-> T_Activity],
                        [date |-> EmptyText, header |-> h.text] >>,
                     <<DataLine(T_Asha, T_Pune, <<T_Travel, T_5>>)>>)) :
        h \in SubHeaders }

T_Attendance == <<"A","t","t","e","n","d","a","n","c","e">>
T_TaskPriority == <<"T","a","s","k"," ","P","r","i","o","r","i","t","y">>
T_StartTime == <<"S","t","a","r","t"," ","T","i","m","e">>
T_EndTime == <<"E","n","d"," ","T","i","m","e">>
T_Present == <<"P","r","e","s","e","n","t">>
T_High == <<"H","i","g","h">>
T_Nine == <<"9",":","0","0">>
T_Six == <<"1","8",":","0","0">>

\* a day block with all seven fields
FullBlock ==
    << [date |-> T_D1, header |-> T_Attendance],
       [date |-> EmptyText, header |-> T_Activity],
       [date |-> EmptyText, header |-> T_TaskPriority],
       [date |-> EmptyText, header |-> T_StartTime],
       [date |-> EmptyText, header |-> T_EndTime],
       [date |-> EmptyText, header |-> T_WorkTime],
       [date |-> EmptyText, header |-> T_Description] >>

\* attendance family: two rows under a full day block; in the first row each
\* field is filled or not, the second row is filled throughout
AttendanceFiles ==
    { MkFile(MkLines(FullBlock,
                     << DataLine(T_Asha, T_Pune, q),
                        DataLine(T_Ravi, T_Delhi,
                                 <<T_Present, T_Training, T_High, T_Nine, T_Six,
                                   T_60, T_Demo>>) >>)) :
        q \in {EmptyText, T_Present} \X {EmptyText, T_Space, T_Travel}
              \X {EmptyText, T_High} \X {EmptyText, T_Nine} \X {EmptyText, T_Six}
              \X {EmptyText, T_60} \X {EmptyText, T_Demo} }

T_nan == <<"n","a","n">>
T_NaN == <<"N","a","N">>
T_Nan == <<"N","a","n">>
T_nAnPadded == <<" ","n","A","n"," ">>

NanTexts == {T_nan, T_NaN, T_NAN, T_Nan, T_nAnPadded}

\* nan family: two rows under the columns Activity Category, Description and
\* Work Time; the date-axis cell of the third column and the Activity Category
\* and Description cells of the first row read "nan" in some letter case, or
\* something else
NanFiles ==
    { MkFile(MkLines(<< [date |-> T_D1, header |-> T_Activity],
                        [date |-> EmptyText, header |-> T_Description],
                        [date |-> x, header |-> T_WorkTime] >>,
                     << DataLine(T_Asha, T_Pune, <<a, d, T_60>>),
                        DataLine(T_Ravi, T_Delhi, <<T_Training, T_Demo, T_15>>) >>)) :
        x \in NanTexts \cup {EmptyText, T_D2},
        a \in {EmptyText, T_NAN, T_Travel},
        d \in NanTexts \cup {EmptyText, T_Demo} }

\* the identity columns in which a date label is placed
LeftColumns == {0, 3, 6}

\* left-label family: one row under an Activity Category and a Description
\* column whose date-axis cells vary; the date row has a date label in one of
\* the identity columns, or in none
LeftLabelFiles ==
    LET lines(a, b) ==
            MkLines(<< [date |-> a, header |-> T_Activity],
                       [date |-> b, header |-> T_Description] >>,
                    <<DataLine(T_Asha, T_Pune, <<T_Travel, T_Demo>>)>>)
        labelled(l, k) == [l EXCEPT ![date_row_idx + 1][k + 1] = T_D2]
    IN  { MkFile(lines(a, b)) :
            a \in {EmptyText, T_Space, T_NAN, T_D1Padded}, b \in {EmptyText, T_D1} }
        \cup
        { MkFile(labelled(lines(a, b), k)) :
            a \in {EmptyText, T_Space, T_NAN, T_D1Padded}, b \in {EmptyText, T_D1},
            k \in LeftColumns }

DuplicatePool == {EmptyText, T_Space, T_Demo, T_Remarks}

\* one day block with two Description columns
TwoDescriptions ==
    << [date |-> T_D1, header |-> T_Activity],
       [date |-> EmptyText, header |-> T_Description],
       [date |-> EmptyText, header |-> T_Description] >>

PairBlock(label) ==
    << [date |-> label, header |-> T_Activity],
       [date |-> EmptyText, header |-> T_Description] >>

\* duplicate family: one row; columns that map to the same (date, field): two
\* Description columns in one block, one label heading two blocks, and one
\* label coming back after another
DuplicateFiles ==
    { MkFile(MkLines(TwoDescriptions, <<DataLine(T_Asha, T_Pune, <<T_Travel, q[1], q[2]>>)>>)) :
        q \in DuplicatePool \X DuplicatePool }
    \cup
    { MkFile(MkLines(PairBlock(T_D1) \o PairBlock(T_D1),
                     <<DataLine(T_Asha, T_Pune, <<q[1], q[2], q[3], q[4]>>)>>)) :
        q \in DuplicatePool \X DuplicatePool \X DuplicatePool \X DuplicatePool }
    \cup
    { MkFile(MkLines(PairBlock(T_D1) \o PairBlock(T_D2) \o PairBlock(T_D1),
                     <<DataLine(T_Asha, T_Pune,
                                <<q[1], EmptyText, q[2], EmptyText, q[3], EmptyText>>)>>)) :
        q \in {EmptyText, T_Demo, T_Travel} \X {EmptyText, T_Demo} \X {EmptyText, T_Demo, T_Travel} }

T_FebThirty == <<"S","a","t",","," ","F","e","b"," ","3","0",","," ","2","5">>
T_Abc == <<"a","b","c">>
T_Dash == <<"-">>
T_OneFive == <<"1"," ","5">>

\* replacement family: two rows under two day blocks, whose labels are dates
\* or not; these are the sources in which one cell is then replaced
EditBaseFiles ==
    { MkFile(MkLines(DateLayout(l[1]) \o DateLayout(l[2]),
                     << DataLine(T_Asha, T_Pune,
                                 <<T_Training, T_Demo, T_60, T_Travel, T_Demo, T_15>>),
                        DataLine(T_Ravi, T_Delhi,
                                 <<T_Travel, T_Demo, T_5, EmptyText, EmptyText, EmptyText>>) >>)) :
        l \in {T_D1, T_Holiday} \X {T_D2, T_Slashes} }

NoEdit == [kind |-> "none", row |-> 0, col |-> 0, text |-> <<>>, old |-> <<>>]

ReplacementCells == {EmptyText, T_Training, T_NAN}
UnparsableTexts == {T_Holiday, T_Slashes, T_NoWeekday, T_FebThirty, T_NAN}
NonNumericTexts == {T_Abc, T_Dash, T_OneFive}

\* how many sub-columns a day block of the replacement family has
BlockWidth == Len(DateLayout(T_D1))

\* the replacements: the label of one of the two blocks, or the Work Time,
\* Activity Category or Description cell of one of the two blocks in one of the
\* two rows
Edits ==
    { [kind |-> "date", row |-> date_row_idx, col |-> first_day_col + b * BlockWidth,
       text |-> u, old |-> <<>>] : b \in {0, 1}, u \in UnparsableTexts }
    \cup
    { [kind |-> "work", row |-> data_start_idx + i,
       col |-> first_day_col + b * BlockWidth + (BlockWidth - 1),
       text |-> u, old |-> <<>>] : i \in {0, 1}, b \in {0, 1}, u \in NonNumericTexts }
    \cup
    { [kind |-> "cell", row |-> data_start_idx + i,
       col |-> first_day_col + b * BlockWidth + k,
       text |-> u, old |-> <<>>] : i \in {0, 1}, b \in {0, 1}, k \in {0, 1},
                                   u \in ReplacementCells }

EditedFile(f, e) ==
    [f EXCEPT !.lines[e.row + 1][e.col + 1] = e.text]

Files ==
    ShapeFiles \cup EmployeeFiles \cup LocationFiles \cup CellFiles
    \cup TwoBlockFiles \cup WorkTimeFiles \cup DateFiles \cup EditBaseFiles
    \cup CategoryFiles \cup AxisFiles \cup FieldFiles \cup DuplicateFiles
    \cup AttendanceFiles \cup NanFiles \cup LeftLabelFiles

----------------------------------------------------------------------------
(* The call, step by step *)

total_cols == NCols(df_raw)

AfterScan(d) ==
    IF Len(d) > 0 THEN "rows" ELSE "post"

AfterPrep(g, d) ==
    IF first_day_col < NCols(g) THEN "scan" ELSE AfterScan(d)

\* lines 14 and 203: "except Exception" catches whatever the guarded
\* statements raise; an exception it did not catch would leave the call
\* (pc = "raised")
ExceptKeyErrorOnly(err) ==
    err \in {"1", "2"}

ExceptException(err) ==
    TRUE

KeepProcessedRows(stale) ==
    stale

\* line 54: processed_rows = [] (the argument is what an earlier call left)
NewProcessedRows(stale) ==
    <<>>

Init ==
    /\ file \in Files
    /\ pc = "load"
    /\ df_raw = <<>>
    /\ data = <<>>
    /\ current_date_str = None
    /\ c = first_day_col
    /\ col_map = <<>>
    /\ r = 1
    /\ processed_rows = <<>>
    /\ origin = <<>>
    /\ result = [df |-> EmptyFrame, msg |-> None]
    /\ calls = 1
    /\ previous = [df |-> EmptyFrame, msg |-> None]
    /\ edit = NoEdit
    /\ base = [df |-> EmptyFrame, msg |-> None]

\* lines 10-15
Load ==
    /\ pc = "load"
    /\ LET got == read_csv(file)
       IN  IF got.ok
           THEN /\ df_raw' = got.grid
                /\ pc' = "prep"
                /\ UNCHANGED result
           ELSE IF ExceptException(got.err)
           THEN /\ result' = LoadErrorResult(got.err)
                /\ pc' = "done"
                /\ UNCHANGED df_raw
           ELSE /\ pc' = "raised"
                /\ UNCHANGED <<df_raw, result>>
    /\ UNCHANGED <<file, data, current_date_str, c, col_map, r, processed_rows,
                   origin, calls, previous>>
    /\ UNCHANGED <<edit, base>>

\* lines 32-74, and the except clause of lines 203-205 for what they raise
Prep ==
    /\ pc = "prep"
    /\ IF PrepError(df_raw) # "" /\ ExceptException(PrepError(df_raw))
       THEN /\ result' = ProcessErrorResult(PrepError(df_raw))
            /\ pc' = "done"
            /\ UNCHANGED <<data, current_date_str, c, col_map, r, processed_rows, origin>>
       ELSE IF PrepError(df_raw) # ""
       THEN /\ pc' = "raised"
            /\ UNCHANGED <<data, current_date_str, c, col_map, r, processed_rows,
                           origin, result>>
       ELSE /\ data' = CleanData(df_raw)
            /\ processed_rows' = NewProcessedRows(processed_rows)
            /\ origin' = <<>>
            /\ current_date_str' = None
            /\ col_map' = <<>>
            /\ c' = first_day_col
            /\ r' = 1
            /\ pc' = AfterPrep(df_raw, CleanData(df_raw))
            /\ UNCHANGED result
    /\ UNCHANGED <<file, df_raw, calls, previous>>
    /\ UNCHANGED <<edit, base>>

\* lines 76-102, one column
ScanCol ==
    /\ pc = "scan"
    /\ LET cur == ScanDate(df_raw, c, current_date_str)
       IN  /\ current_date_str' = cur
           /\ col_map' = ScanMap(col_map, c, cur, ScanField(df_raw, c))
    /\ c' = c + 1
    /\ pc' = IF c + 1 < total_cols THEN "scan" ELSE AfterScan(data)
    /\ UNCHANGED <<file, df_raw, data, r, processed_rows, origin, result, calls, previous>>
    /\ UNCHANGED <<edit, base>>

\* a row step that reads the first data row again
RowOfFirst ==
    /\ pc = "rows"
    /\ LET new == RowEntries([data[1] EXCEPT !.idx = data[r].idx], col_map)
       IN  /\ processed_rows' = processed_rows \o new
           /\ origin' = origin \o [i \in DOMAIN new |-> data[r].idx]
    /\ r' = r + 1
    /\ pc' = IF r < Len(data) THEN "rows" ELSE "post"
    /\ UNCHANGED <<file, df_raw, data, current_date_str, c, col_map, result, calls, previous>>
    /\ UNCHANGED <<edit, base>>

\* a row step that also drops the first column of the role map
RowChangingMap ==
    /\ pc = "rows"
    /\ LET new == RowEntries(data[r], col_map)
       IN  /\ processed_rows' = processed_rows \o new
           /\ origin' = origin \o [i \in DOMAIN new |-> data[r].idx]
    /\ r' = r + 1
    /\ pc' = IF r < Len(data) THEN "rows" ELSE "post"
    /\ col_map' = IF col_map = <<>> THEN col_map ELSE Tail(col_map)
    /\ UNCHANGED <<file, df_raw, data, current_date_str, c, result, calls, previous>>
    /\ UNCHANGED <<edit, base>>

\* lines 107-151, one data row
Row ==
    /\ pc = "rows"
    /\ LET new == RowEntries(data[r], col_map)
       IN  /\ processed_rows' = processed_rows \o new
           /\ origin' = origin \o [i \in DOMAIN new |-> data[r].idx]
    /\ r' = r + 1
    /\ pc' = IF r < Len(data) THEN "rows" ELSE "post"
    /\ UNCHANGED <<file, df_raw, data, current_date_str, c, col_map, result, calls, previous>>
    /\ UNCHANGED <<edit, base>>

\* lines 153-201
Post ==
    /\ pc = "post"
    /\ result' = PostResult(processed_rows)
    /\ pc' = "done"
    /\ UNCHANGED <<file, df_raw, data, current_date_str, c, col_map, r,
                   processed_rows, origin, calls, previous>>
    /\ UNCHANGED <<edit, base>>

\* the caller calls again on the same source; the locals of the new call are
\* unbound until the statements above assign them
CallAgain ==
    /\ pc = "done"
    /\ calls < MaxCalls
    /\ calls' = calls + 1
    /\ previous' = result
    /\ pc' = "load"
    /\ UNCHANGED <<file, df_raw, data, current_date_str, c, col_map, r,
                   processed_rows, origin, result>>
    /\ UNCHANGED <<edit, base>>

\* the source is changed in one cell, a date label or a cell of a data row,
\* and loaded anew
Replace ==
    /\ pc = "done"
    /\ edit = NoEdit
    /\ file \in EditBaseFiles
    /\ result.msg = None
    /\ \E e \in Edits :
        /\ edit' = [e EXCEPT !.old = At(file.lines[e.row + 1], e.col)]
        /\ file' = EditedFile(file, e)
    /\ base' = result
    /\ calls' = 1
    /\ previous' = [df |-> EmptyFrame, msg |-> None]
    /\ pc' = "load"
    /\ UNCHANGED <<df_raw, data, current_date_str, c, col_map, r,
                   processed_rows, origin, result>>

Next ==
    \/ Load
    \/ Prep
    \/ ScanCol
    \/ Row
    \/ Post
    \/ CallAgain
    \/ Replace

Spec ==
    Init /\ [][Next]_vars

----------------------------------------------------------------------------
(* Properties *)

Done == pc = "done"
Succeeded == pc = "done" /\ result.msg = None

\* what the loader cannot turn into a grid, stated on the source itself
CannotParse(f) ==
    \/ ~f.readable
    \/ \A i \in DOMAIN f.lines : f.lines[i] \in {<<>>, <<EmptyText>>}
    \/ LET first == CHOOSE i \in DOMAIN f.lines :
                       /\ f.lines[i] \notin {<<>>, <<EmptyText>>}
                       /\ \A j \in 1..(i - 1) : f.lines[j] \in {<<>>, <<EmptyText>>}
       IN  \E i \in DOMAIN f.lines : Len(f.lines[i]) > Len(f.lines[first])

IsMessage(m) ==
    m # None /\ Len(m) >= 1 /\ m[Len(m)] # ""

\* C1: every call ends by returning a pair (record set, message); no exception
\* leaves the call. A source that cannot be loaded, and a grid on which a
\* processing step fails (fewer than 3 columns or fewer than 3 rows), end in an
\* empty record set with a message that carries the cause.
C1_NoEscape ==
    /\ pc # "raised"
    /\ Done =>
        /\ DOMAIN result.df = 1..Len(result.df)
        /\ result.msg = None \/ IsMessage(result.msg)
        /\ CannotParse(file) =>
            /\ result.df = <<>>
            /\ result.msg = <<"Error loading CSV: ", read_csv(file).err>>
            /\ read_csv(file).err # ""
        /\ (~CannotParse(file) /\ (NCols(df_raw) < 3 \/ NRows(df_raw) < 3)) =>
            /\ result.df = <<>>
            /\ Len(result.msg) = 2
            /\ result.msg[1] = "Error processing data: "
            /\ result.msg[2] # ""

C1_Witness ==
    /\ Done
    /\ ~CannotParse(file)
    /\ NRows(df_raw) < 3
    /\ result.msg[1] = "Error processing data: "

\* C2: in every outcome the message is None exactly when the returned record
\* set is non-empty, and a None message comes with every emitted record.
C2_MessageIffEmpty ==
    Done =>
        /\ (result.msg = None) <=> (result.df # <<>>)
        /\ result.msg = None => Len(result.df) = Len(processed_rows)

C2_Witness ==
    Done /\ result.msg = None /\ Len(result.df) >= 2

\* a cell that is missing or holds nothing but whitespace
RefBlank(x) ==
    x = NaN \/ Strip(x) = <<>>

\* the nearest non-blank cell of column col at or above row `row` of grid g
NearestAbove(g, col, row) ==
    LET cand == { i \in 0..row : ~RefBlank(At(g[i + 1], col)) }
        top == CHOOSE i \in cand : \A j \in cand : j <= i
    IN  IF cand = {} THEN NaN ELSE At(g[top + 1], col)

SourceRow(i) ==
    origin[i] + data_start_idx

\* C3: every emitted record has a non-null, non-blank Employee Name, equal to
\* the nearest non-blank employee cell at or above the record's source row;
\* the returned record set carries the same names.
C3_EmployeeFilled ==
    /\ \A i \in DOMAIN processed_rows :
        /\ IsText(processed_rows[i]["Employee Name"])
        /\ ~RefBlank(processed_rows[i]["Employee Name"])
        /\ processed_rows[i]["Employee Name"]
             = NearestAbove(df_raw, employee_col, SourceRow(i))
    /\ Succeeded =>
        \A i \in DOMAIN result.df :
            result.df[i]["Employee Name"] = processed_rows[i]["Employee Name"]

\* a record of a continuation row whose employee cell is whitespace only,
\* named after the second of two different employees above it
C3_Witness ==
    /\ Succeeded
    /\ \E i \in DOMAIN result.df :
        /\ file.lines[SourceRow(i) + 1][employee_col + 1] = T_Space
        /\ result.df[i]["Employee Name"] = T_Ravi
        /\ At(df_raw[data_start_idx + 1], employee_col) = T_Asha

AllRowsDone ==
    pc \in {"post", "done"} /\ ~CannotParse(file) /\ PrepError(df_raw) = ""

DateLabels ==
    { col_map[j].date : j \in DOMAIN col_map }

\* what the bundle of data row d and date label L holds for field f: the cell
\* of the right-most column mapped to (L, f), nothing when there is none
BundleCell(d, L, f) ==
    LET cols == { j \in DOMAIN col_map : col_map[j].date = L /\ col_map[j].field = f }
        last == CHOOSE j \in cols : \A k \in cols : k <= j
    IN  IF cols = {} THEN EmptyText ELSE At(d.row, col_map[last].col)

Emitted(d, L) ==
    \E i \in DOMAIN processed_rows :
        origin[i] = d.idx /\ processed_rows[i]["Date"] = L

\* C4: for every retained data row and every date label, the bundle appears
\* as a record if and only if its Activity Category or its Description is
\* non-blank after trimming.
C4_ValidityIff ==
    AllRowsDone =>
        \A k \in DOMAIN data : \A L \in DateLabels :
            Emitted(data[k], L) <=>
                \/ ~RefBlank(BundleCell(data[k], L, "Activity Category"))
                \/ ~RefBlank(BundleCell(data[k], L, "Description"))

GridRows(f) ==
    Len(SelectSeq(f.lines, LAMBDA l : l \notin {<<>>, <<EmptyText>>}))

\* C5: a grid with fewer than 4 rows returns an empty record set together
\* with a non-null message.
C5_FewRows ==
    (Done /\ file.readable /\ GridRows(file) < 4) =>
        result.df = <<>> /\ result.msg # None

\* the three header rows of the full-width grid and no data row
C5_Witness ==
    /\ Done
    /\ file.readable
    /\ GridRows(file) = 3
    /\ NCols(df_raw) = first_day_col + 6
    /\ Len(col_map) = 6
    /\ result.df = <<>>
    /\ result.msg # None

NoDataMsg == <<"No data found.">>

ThreeHeaderRowsOnly ==
    Done /\ ~CannotParse(file) /\ NRows(df_raw) = data_start_idx /\ NCols(df_raw) >= 3

ExpectedLoadCause(f) ==
    IF ~f.readable THEN "[Errno 2] No such file or directory"
    ELSE IF GridRows(f) = 0 THEN "No columns to parse from file"
    ELSE "Error tokenizing data"

\* C7: a source that cannot be read or parsed returns an empty record set and
\* the load-error message with the underlying cause; no later step has run
\* (its variables are untouched), and the message differs from the
\* processing-error and no-data messages.
C7_LoadError ==
    (Done /\ CannotParse(file)) =>
        /\ result.df = <<>>
        /\ result.msg = <<"Error loading CSV: ", ExpectedLoadCause(file)>>
        /\ result.msg[1] # "Error processing data: "
        /\ result.msg # NoDataMsg
        /\ df_raw = <<>> /\ data = <<>> /\ col_map = <<>>
        /\ processed_rows = <<>> /\ current_date_str = None

\* a full grid with one record one field too long
C7_Witness ==
    /\ Done
    /\ file.readable
    /\ GridRows(file) > data_start_idx
    /\ CannotParse(file)
    /\ result.msg[1] = "Error loading CSV: "

----------------------------------------------------------------------------
(* A reference reading of numeric text, written apart from ParseFloat: a   *)
(* text is numeric when, trimmed, it is an optional sign, then decimal     *)
(* digits with at most one point among them; its value is RefN / RefD.     *)

DigitSet == {"0", "1", "2", "3", "4", "5", "6", "7", "8", "9"}

RefBody(t) ==
    LET u == Strip(t)
    IN  IF u # <<>> /\ u[1] \in {"+", "-"} THEN SubSeq(u, 2, Len(u)) ELSE u

RefNegative(t) ==
    Strip(t) # <<>> /\ Strip(t)[1] = "-"

RefPoints(t) ==
    { i \in DOMAIN RefBody(t) : RefBody(t)[i] = "." }

RefDigitsAt(t) ==
    (DOMAIN RefBody(t)) \ RefPoints(t)

RefIsNumeric(t) ==
    /\ Cardinality(RefPoints(t)) <= 1
    /\ RefDigitsAt(t) # {}
    /\ \A i \in RefDigitsAt(t) : RefBody(t)[i] \in DigitSet

RefDigit(ch) ==
    CHOOSE v \in 0..9 : Digits[v + 1] = ch

RECURSIVE RefSum(_, _)
RefSum(t, places) ==
    IF places = {} THEN 0
    ELSE LET i == CHOOSE j \in places : TRUE
         IN  RefDigit(RefBody(t)[i])
               * Pow10(Cardinality({ j \in RefDigitsAt(t) : j > i }))
             + RefSum(t, places \ {i})

RefN(t) ==
    (IF RefNegative(t) THEN -1 ELSE 1) * RefSum(t, RefDigitsAt(t))

RefD(t) ==
    Pow10(Cardinality({ j \in RefDigitsAt(t) : \E q \in RefPoints(t) : j > q }))

\* the Work Time cell behind record i: the cell of the right-most column mapped
\* to (the record's date, Work Time (Mins)), None when the block has none
WorkTimeCell(i) ==
    LET L == result.df[i]["Date"]
        cols == { j \in DOMAIN col_map :
                    col_map[j].date = L /\ col_map[j].field = "Work Time (Mins)" }
        last == CHOOSE j \in cols : \A k \in cols : k <= j
    IN  IF cols = {} THEN None ELSE At(df_raw[SourceRow(i) + 1], col_map[last].col)

Minutes(i) ==
    result.df[i]["Work Time (Mins)"]

C10_NonNegative ==
    Succeeded =>
        \A i \in DOMAIN result.df :
            Minutes(i).kind = "num" /\ Minutes(i).n >= 0

----------------------------------------------------------------------------
(* Date labels *)

\* what the parts of a label stand for, read off the parts and not the text
PartsDate(p) ==
    IF /\ p.wd.ok /\ p.mon.num > 0 /\ p.day.num > 0 /\ p.yr.year > 0
       /\ p.day.num <= p.mon.days + (IF p.mon.num = 2 /\ p.yr.leap THEN 1 ELSE 0)
    THEN [y |-> p.yr.year, m |-> p.mon.num, d |-> p.day.num]
    ELSE NaT

\* the labels without ordinal suffix, each with the calendar date it names
PlainLabelDates ==
    { <<LabelText(p), PartsDate(p)>> : p \in { q \in LabelParts : q.suf = <<>> } }
    \cup { <<T_D2, [y |-> 2025, m |-> 11, d |-> 2]>>,
           <<T_WideBlanks, [y |-> 2025, m |-> 11, d |-> 1]>>,
           <<T_NoBlank, NaT>>, <<T_Slashes, NaT>>, <<T_Holiday, NaT>> }

PlainLabels == { t[1] : t \in PlainLabelDates }

\* the date label of a file of the date family, as written in the source
FileLabel == At(file.lines[date_row_idx + 1], first_day_col)

\* C11: a label "weekday, month day, two-digit year" gives the Date_Obj of that
\* calendar date ("Sat, Nov 01, 25" gives 2025-11-01); a label that does not
\* match the pattern or names a day its month does not have gives a null
\* Date_Obj ("Nov 1st, 25"), and its record is still returned with the raw
\* label as Date by a call that succeeds.
C11_DateParsing ==
    Done =>
        /\ \A i \in DOMAIN result.df :
            LET e == result.df[i]
            IN  /\ e["Date"] \in PlainLabels => <<e["Date"], e["Date_Obj"]>> \in PlainLabelDates
                /\ e["Date"] = T_D1 => e["Date_Obj"] = [y |-> 2025, m |-> 11, d |-> 1]
                /\ e["Date"] = T_NoWeekday => e["Date_Obj"] = NaT
        /\ file \in DateFiles =>
            /\ result.msg = None
            /\ Len(result.df) = 1
            /\ result.df[1]["Date"] = FileLabel

C11_Witness ==
    /\ Succeeded
    /\ \E i \in DOMAIN result.df :
        /\ result.df[i]["Date"] = <<"S","a","t",","," ","F","e","b"," ","3","0",","," ","2","5">>
        /\ result.df[i]["Date_Obj"] = NaT
        /\ result.df[i]["Employee Name"] = T_Asha

----------------------------------------------------------------------------
(* One replaced cell *)

MissingDate(e) ==
    [e EXCEPT !["Date_Obj"] = NaT, !["Month"] = "<NaN>", !["Week"] = 0,
              !["DayOfWeek"] = "<NaN>"]

\* record i comes from the replaced Work Time cell: same row, and the cell's
\* column is mapped to the record's date
FromEditedCell(i) ==
    /\ SourceRow(i) = edit.row
    /\ \E j \in DOMAIN col_map :
        col_map[j].col = edit.col /\ col_map[j].date = result.df[i]["Date"]

\* what record i of the first load is expected to be after the replacement
AfterEdit(i) ==
    LET b == base.df[i]
    IN  IF edit.kind = "date"
        THEN (IF b["Date"] = edit.old
              THEN MissingDate([b EXCEPT !["Date"] = edit.text])
              ELSE b)
        ELSE (IF FromEditedCell(i)
              THEN [b EXCEPT !["Work Time (Mins)"] = Zero]
              ELSE b)

Unharmed ==
    /\ result.msg = None
    /\ Len(result.df) = Len(base.df)
    /\ \A i \in DOMAIN result.df : result.df[i] = AfterEdit(i)

\* C12: one malformed cell never discards a record or the load. After a date
\* label of a successfully loaded grid is replaced by unparsable text, or a
\* Work Time cell by non-numeric text, the load returns as many records as
\* before, each equal to what it was except that the affected ones carry the
\* new label with a null Date_Obj, or a Work Time of 0; also when every label
\* of the grid is unparsable.
C12_OneMalformedCell ==
    Done /\ edit.kind \in {"date", "work"} => Unharmed

\* the replacements that keep day blocks apart: the new label is not "nan" in
\* some letter case and is not the label of the other block
KeepsBlocks ==
    edit.kind = "date" =>
        /\ Lower(edit.text) # <<"n","a","n">>
        /\ \A k \in first_day_col..(NCols(df_raw) - 1) :
              k # edit.col => At(file.lines[date_row_idx + 1], k) # edit.text

C12_KeepingBlocks ==
    Done /\ edit.kind \in {"date", "work"} /\ KeepsBlocks => Unharmed

C12_AllUnparsable ==
    /\ Succeeded /\ edit.kind = "date" /\ KeepsBlocks
    /\ \A i \in DOMAIN result.df : result.df[i]["Date_Obj"] = NaT
    /\ Len(result.df) = 3

----------------------------------------------------------------------------
(* Ordinal suffixes *)

T_Nov1st == <<"S","a","t",","," ","N","o","v"," ","1","s","t",","," ","2","5">>

\* the labels whose day carries an ordinal suffix, each with the same label
\* written without it
OrdinalLabels ==
    { <<LabelText(p), LabelText([p EXCEPT !.suf = <<>>])>> :
        p \in { q \in LabelParts : q.suf # <<>> } }

\* C13: ordinal suffixes are stripped before date parsing. A label whose day
\* carries "st", "nd", "rd" or "th" ("Sat, Nov 1st, 25") gets the Date_Obj of
\* the label without the suffix, and what is parsed is the label with the
\* suffix taken out and nothing else changed.
C13_OrdinalStripped ==
    Done =>
        \A i \in DOMAIN result.df :
            LET e == result.df[i]
            IN  /\ e["Date"] \in { t[1] : t \in OrdinalLabels } =>
                    /\ <<e["Date"], StripOrdinals(e["Date"])>> \in OrdinalLabels
                    /\ <<StripOrdinals(e["Date"]), e["Date_Obj"]>> \in PlainLabelDates
                    /\ e["Date_Obj"] = parse_custom_date(StripOrdinals(e["Date"]))
                /\ e["Date"] = T_Nov1st => e["Date_Obj"] = [y |-> 2025, m |-> 11, d |-> 1]

C13_Witness ==
    /\ Succeeded
    /\ \E i \in DOMAIN result.df :
        /\ result.df[i]["Date"] = T_Nov1st
        /\ result.df[i]["Date_Obj"] = [y |-> 2025, m |-> 11, d |-> 1]

----------------------------------------------------------------------------
(* Billable *)

BillableWords ==
    { <<"t","r","a","i","n","i","n","g">>, <<"a","s","s","e","s","s","m","e","n","t">>,
      <<"c","o","n","t","e","n","t">>, <<"d","e","v","e","l","o","p","m","e","n","t">> }

\* w stands somewhere in t
Occurs(w, t) ==
    \E a \in 0..(Len(t) - Len(w)) : \A i \in DOMAIN w : t[a + i] = w[i]

\* the Activity Category cell behind record i
CategoryCell(i) ==
    LET cols == { j \in DOMAIN col_map :
                    /\ col_map[j].date = result.df[i]["Date"]
                    /\ col_map[j].field = "Activity Category" }
        last == CHOOSE j \in cols : \A k \in cols : k <= j
    IN  IF cols = {} THEN None
        ELSE At(file.lines[SourceRow(i) + 1], col_map[last].col)

----------------------------------------------------------------------------
(* One row, several day blocks *)

\* the two day blocks of a source of the two-block family, read off the source:
\* label, and the row's Activity Category, Description and Work Time cells
FileBlocks ==
    [b \in 1..2 |->
        LET k == first_day_col + (b - 1) * BlockWidth
        IN  [label |-> At(file.lines[date_row_idx + 1], k),
             act |-> At(file.lines[data_start_idx + 1], k),
             desc |-> At(file.lines[data_start_idx + 1], k + 1),
             work |-> At(file.lines[data_start_idx + 1], k + 2)]]

FilledBlocks ==
    SelectSeq(FileBlocks, LAMBDA b : Strip(b.act) # <<>> \/ Strip(b.desc) # <<>>)

\* C15: a row spanning several day blocks gives exactly one record per block
\* whose Activity Category or Description is non-blank and none for a block
\* whose sub-cells are all blank; each record carries the label of its block as
\* Date, the coerced Work Time cell of its block, and the Is_Billable of the
\* Activity Category of its block.
C15_EndToEnd ==
    Done /\ file \in TwoBlockFiles =>
        /\ Len(result.df) = Len(FilledBlocks)
        /\ \A i \in DOMAIN result.df :
            i <= Len(FilledBlocks) =>
                LET e == result.df[i]
                    b == FilledBlocks[i]
                IN  /\ e["Date"] = b.label
                    /\ e["Work Time (Mins)"].n * RefD(b.work)
                         = RefN(b.work) * e["Work Time (Mins)"].d
                    /\ e["Is_Billable"] <=> \E w \in BillableWords : Occurs(w, Lower(b.act))

----------------------------------------------------------------------------
(* Description *)

\* the Description cell behind record i, None when the record's day block has
\* no Description column
DescriptionCell(i) ==
    LET cols == { j \in DOMAIN col_map :
                    /\ col_map[j].date = result.df[i]["Date"]
                    /\ col_map[j].field = "Description" }
        last == CHOOSE j \in cols : \A k \in cols : k <= j
    IN  IF cols = {} THEN None
        ELSE At(file.lines[SourceRow(i) + 1], col_map[last].col)

\* C16: every emitted record's Description is a string, and it is the empty
\* string when the Description cell of its block is blank or its block has no
\* Description column.
C16_DescriptionString ==
    Done /\ AllRowsDone =>
        \A i \in DOMAIN result.df :
            /\ IsText(result.df[i]["Description"])
            /\ (DescriptionCell(i) = None \/ Strip(DescriptionCell(i)) = <<>>)
                  => result.df[i]["Description"] = EmptyText

\* what holds of the Description: the empty string without a Description
\* column, the missing value for an empty cell, the cell's text otherwise
C16_DescriptionAsIs ==
    Done /\ AllRowsDone =>
        \A i \in DOMAIN result.df :
            result.df[i]["Description"] =
                IF DescriptionCell(i) = None THEN EmptyText
                ELSE IF DescriptionCell(i) = EmptyText THEN NaN
                ELSE DescriptionCell(i)

----------------------------------------------------------------------------
(* Forward-fill of the identity columns *)

\* the nearest non-blank cell of column col among the data rows of grid g at
\* or above row `row`, the missing value when there is none
NearestDataAbove(g, col, row) ==
    LET cand == { i \in data_start_idx..row : ~RefBlank(At(g[i + 1], col)) }
        top == CHOOSE i \in cand : \A j \in cand : j <= i
    IN  IF cand = {} THEN NaN ELSE At(g[top + 1], col)

Prepared ==
    pc \in {"scan", "rows", "post", "done"} /\ ~CannotParse(file) /\ PrepError(df_raw) = ""

\* C17: in columns 1 (employee) and 2 (location) a blank or whitespace-only
\* cell counts as absent and takes the last non-blank value above it among the
\* data rows; a data row whose employee is still absent after that is dropped
\* and produces no record.
C17_ForwardFill ==
    Prepared =>
        /\ \A j \in DOMAIN data :
            LET row == data[j].idx + data_start_idx
            IN  /\ At(data[j].row, employee_col) = NearestDataAbove(df_raw, employee_col, row)
                /\ At(data[j].row, location_col) = NearestDataAbove(df_raw, location_col, row)
        /\ { data[j].idx + data_start_idx : j \in DOMAIN data }
             = { row \in data_start_idx..(NRows(df_raw) - 1) :
                    NearestDataAbove(df_raw, employee_col, row) # NaN }
        /\ \A i \in DOMAIN processed_rows :
            /\ NearestDataAbove(df_raw, employee_col, SourceRow(i)) # NaN
            /\ processed_rows[i]["Employee Name"]
                 = NearestDataAbove(df_raw, employee_col, SourceRow(i))
            /\ processed_rows[i]["Location"]
                 = NearestDataAbove(df_raw, location_col, SourceRow(i))

\* a first data row without employee is dropped, and the record of the next
\* row, whose location cell is whitespace only, takes the location above it
C17_Witness ==
    /\ Succeeded
    /\ RefBlank(At(df_raw[data_start_idx + 1], employee_col))
    /\ Len(result.df) = 1
    /\ SourceRow(1) = data_start_idx + 1
    /\ At(df_raw[SourceRow(1) + 1], location_col) = T_Space
    /\ result.df[1]["Location"] = T_Pune

----------------------------------------------------------------------------
(* The column scan *)

\* the columns the scan has passed
Scanned ==
    0..((IF pc = "scan" THEN c ELSE total_cols) - 1)

DateCell(col) == At(df_raw[date_row_idx + 1], col)
FieldCell(col) == At(df_raw[header_row_idx + 1], col)

Mapped(col) ==
    \E j \in DOMAIN col_map : col_map[j].col = col

\* the canonical markers, in their order, each with the field it stands for
Markers ==
    << [marker |-> <<"A","t","t","e","n","d","a","n","c","e">>, field |-> "Attendance_Status"],
       [marker |-> <<"A","c","t","i","v","i","t","y"," ","C","a","t","e","g","o","r","y">>,
        field |-> "Activity Category"],
       [marker |-> <<"T","a","s","k"," ","P","r","i","o","r","i","t","y">>,
        field |-> "Task Priority"],
       [marker |-> <<"S","t","a","r","t">>, field |-> "Start Time"],
       [marker |-> <<"E","n","d">>, field |-> "End Time"],
       [marker |-> <<"W","o","r","k"," ","T","i","m","e">>, field |-> "Work Time (Mins)"],
       [marker |-> <<"M","i","n","s">>, field |-> "Work Time (Mins)"],
       [marker |-> <<"D","e","s","c","r","i","p","t","i","o","n">>, field |-> "Description"] >>

\* the markers that stand in a field-axis cell
MarkersIn(cell) ==
    { i \in DOMAIN Markers : IsText(cell) /\ Occurs(Markers[i].marker, cell) }

EarliestField(cell) ==
    IF MarkersIn(cell) = {} THEN NoField
    ELSE Markers[CHOOSE i \in MarkersIn(cell) : \A k \in MarkersIn(cell) : i <= k].field

\* the day columns up to col whose date-axis cell is non-blank
LabelsUpTo(col) ==
    { k \in first_day_col..col : ~RefBlank(DateCell(k)) }

\* C18: the role map holds column c if and only if c >= 7, some date-axis cell
\* in columns 7..c is non-blank, and the field-axis cell of c matches a marker;
\* a column scanned before any date is seen is not mapped, and columns 0 to 6
\* are never mapped.
C18_MappedIff ==
    Prepared =>
        /\ \A j \in DOMAIN col_map : col_map[j].col \in Scanned
        /\ \A col \in Scanned :
            Mapped(col) <=>
                /\ col >= first_day_col
                /\ LabelsUpTo(col) # {}
                /\ MarkersIn(FieldCell(col)) # {}

\* the trimmed text of the nearest non-blank date-axis cell at or left of col
\* among the day columns, None when there is none
LabelAt(col) ==
    IF LabelsUpTo(col) = {} THEN None
    ELSE Strip(DateCell(CHOOSE k \in LabelsUpTo(col) : \A q \in LabelsUpTo(col) : q <= k))

\* C19: at every step of the scan current_date is the trimmed text of the
\* nearest non-blank date-axis cell at or left of the column just scanned
\* (among columns >= 7), and every mapped column carries that label of its own
\* day block.
C19_DateInherited ==
    Prepared =>
        /\ current_date_str = LabelAt((IF pc = "scan" THEN c ELSE total_cols) - 1)
        /\ \A j \in DOMAIN col_map : col_map[j].date = LabelAt(col_map[j].col)

\* the scan's own reading of the date axis: a cell that reads "nan" in some
\* letter case counts as blank. With it the two statements above hold.
ScanLabelsUpTo(col) ==
    { k \in LabelsUpTo(col) : Lower(Strip(DateCell(k))) # <<"n","a","n">> }

ScanLabelAt(col) ==
    IF ScanLabelsUpTo(col) = {} THEN None
    ELSE Strip(DateCell(CHOOSE k \in ScanLabelsUpTo(col) :
                            \A q \in ScanLabelsUpTo(col) : q <= k))

C18_NanAsBlank ==
    Prepared =>
        \A col \in Scanned :
            Mapped(col) <=>
                /\ col >= first_day_col
                /\ ScanLabelsUpTo(col) # {}
                /\ MarkersIn(FieldCell(col)) # {}

C19_NanAsBlank ==
    Prepared =>
        /\ current_date_str = ScanLabelAt((IF pc = "scan" THEN c ELSE total_cols) - 1)
        /\ \A j \in DOMAIN col_map : col_map[j].date = ScanLabelAt(col_map[j].col)

EntryKeys ==
    { "Employee Name", "Location", "Date", "Attendance", "Activity Category",
      "Task Priority", "Start Time", "End Time", "Work Time (Mins)", "Description" }

\* the record expected from a source of the field family whose second
\* sub-header stands for entry field key
FieldFileRecord(key) ==
    [k \in EntryKeys |->
        IF k = key THEN (IF k = "Work Time (Mins)" THEN Num(5, 1) ELSE T_5)
        ELSE CASE k = "Employee Name" -> T_Asha
               [] k = "Location" -> T_Pune
               [] k = "Date" -> T_D1
               [] k = "Activity Category" -> T_Travel
               [] k = "Work Time (Mins)" -> Zero
               [] k = "Description" -> EmptyText
               [] OTHER -> NaN]

KeyOf(field) ==
    IF field = "Attendance_Status" THEN "Attendance" ELSE field

\* C20: a sub-header is classified by case-sensitive substring match against
\* the ordered markers Attendance, Activity Category, Task Priority, Start,
\* End, Work Time or Mins, Description; the earliest marker it contains gives
\* its role ("Start Time (Mins)" is Start Time, not Work Time), and a
\* sub-header containing none is not in the role map.
C20_FirstMarkerWins ==
    /\ Prepared =>
        /\ \A j \in DOMAIN col_map :
              col_map[j].field = EarliestField(FieldCell(col_map[j].col))
        /\ \A col \in Scanned : MarkersIn(FieldCell(col)) = {} => ~Mapped(col)
    /\ Done /\ file \in FieldFiles =>
        /\ Len(result.df) = 1
        /\ \A h \in SubHeaders :
              h.text = At(file.lines[header_row_idx + 1], first_day_col + 1) =>
                 /\ \A k \in EntryKeys : result.df[1][k] = FieldFileRecord(h.key)[k]
                 /\ Mapped(first_day_col + 1) <=> h.key # ""
                 /\ \A j \in DOMAIN col_map :
                       col_map[j].col = first_day_col + 1 => KeyOf(col_map[j].field) = h.key

C20_Witness ==
    /\ Succeeded
    /\ file \in FieldFiles
    /\ At(file.lines[header_row_idx + 1], first_day_col + 1)
         = <<"S","t","a","r","t"," ","T","i","m","e"," ","(","M","i","n","s",")">>
    /\ result.df[1]["Start Time"] = T_5
    /\ result.df[1]["Work Time (Mins)"] = Zero

----------------------------------------------------------------------------
(* Columns with the same date and field *)

\* what an entry field holds for a cell of the grid
FieldValue(field, cell) ==
    IF field = "Work Time (Mins)" THEN clean_minutes(cell) ELSE cell

\* col_map[j] is the right-most column of its (date, field) pair
RightMost(j) ==
    \A k \in DOMAIN col_map :
        (col_map[k].date = col_map[j].date /\ col_map[k].field = col_map[j].field)
            => col_map[k].col <= col_map[j].col

\* C21: last write wins. When several columns map to the same (date label,
\* field) pair, the record's value for the field is the cell of the right-most
\* of them, also when that cell is blank and an earlier one is not; the
\* duplicate is not reported as an error.
C21_LastWriteWins ==
    Done /\ AllRowsDone =>
        /\ \A i \in DOMAIN result.df : \A j \in DOMAIN col_map :
              (col_map[j].date = result.df[i]["Date"] /\ RightMost(j)) =>
                  result.df[i][KeyOf(col_map[j].field)]
                    = FieldValue(col_map[j].field,
                                 At(df_raw[SourceRow(i) + 1], col_map[j].col))
        /\ file \in DuplicateFiles => result.msg \in {None, NoDataResult.msg}

\* two Description columns in one block, "demo" in the left one and nothing in
\* the right one: the record's Description is the missing value
C21_Witness ==
    /\ Succeeded
    /\ Len(df_raw[1]) = first_day_col + 3
    /\ ScanField(df_raw, first_day_col + 1) = "Description"
    /\ ScanField(df_raw, first_day_col + 2) = "Description"
    /\ At(df_raw[data_start_idx + 1], first_day_col + 1) = T_Demo
    /\ At(df_raw[data_start_idx + 1], first_day_col + 2) = NaN
    /\ Len(result.df) = 1
    /\ result.df[1]["Description"] = NaN

----------------------------------------------------------------------------
(* Output order *)

\* the left-most column mapped to date label L
FirstColumn(L) ==
    LET cols == { col_map[j].col : j \in { k \in DOMAIN col_map : col_map[k].date = L } }
    IN  CHOOSE x \in cols : \A y \in cols : x <= y

Reconstructing ==
    pc \in {"rows", "post", "done"} /\ ~CannotParse(file) /\ PrepError(df_raw) = ""

\* C22: records appear in source row order, and within one row in date-label
\* discovery order, that is in increasing order of the left-most mapped column
\* of their date labels.
C22_OutputOrder ==
    /\ Reconstructing =>
        \A i, j \in DOMAIN processed_rows :
            i < j =>
                \/ origin[i] < origin[j]
                \/ /\ origin[i] = origin[j]
                   /\ FirstColumn(processed_rows[i]["Date"])
                        < FirstColumn(processed_rows[j]["Date"])
    /\ Succeeded /\ AllRowsDone =>
        /\ Len(result.df) = Len(processed_rows)
        /\ \A i \in DOMAIN result.df :
              /\ result.df[i]["Date"] = processed_rows[i]["Date"]
              /\ result.df[i]["Employee Name"] = processed_rows[i]["Employee Name"]

\* the first label comes back after the second one and its last Activity
\* Category column gives the value, yet its record stays first
C22_Witness ==
    /\ Succeeded /\ file \in DuplicateFiles
    /\ Len(result.df) = 2
    /\ result.df[1]["Date"] = T_D1 /\ result.df[1]["Activity Category"] = T_Travel
    /\ result.df[2]["Date"] = T_D2

----------------------------------------------------------------------------
(* The role map during row reconstruction *)

\* the role map as rows 1 and 2 of the grid alone determine it: the day
\* columns that have a date to their left or above them and a marker in their
\* sub-header, in increasing order
RECURSIVE HeaderMap(_)
HeaderMap(n) ==
    IF n <= first_day_col THEN <<>>
    ELSE LET col == n - 1
         IN  IF ScanLabelsUpTo(col) # {} /\ MarkersIn(FieldCell(col)) # {}
             THEN Append(HeaderMap(n - 1),
                         [col |-> col, date |-> ScanLabelAt(col),
                          field |-> EarliestField(FieldCell(col))])
             ELSE HeaderMap(n - 1)

MapIsHeaderMap ==
    Reconstructing => col_map = HeaderMap(total_cols)

\* C23: the role map is built before any data row is processed and row
\* reconstruction leaves it unchanged: from the first row step on, and after
\* every processed row, it is the map that rows 1 and 2 of the grid determine,
\* whatever the data cells hold.
C23_MapImmutable ==
    /\ []MapIsHeaderMap
    /\ [][pc = "rows" => col_map' = col_map]_vars

C23_Witness ==
    /\ Succeeded
    /\ Len(data) >= 2 /\ r = Len(data) + 1
    /\ Len(col_map) >= 2
    /\ col_map = HeaderMap(total_cols)
    /\ Len(result.df) >= 2

----------------------------------------------------------------------------
(* Rows are reconstructed one by one *)

EntryDefault(k) ==
    CASE k = "Work Time (Mins)" -> IntZero
      [] k = "Description" -> EmptyText
      [] OTHER -> NaN

\* the entry that data row d and date label L give under the role map: the
\* identity cells of d, L, and for each field the cell of d in the right-most
\* column mapped to (L, field)
RowLabelEntry(d, L) ==
    [k \in EntryKeys |->
        CASE k = "Employee Name" -> At(d.row, employee_col)
          [] k = "Location" -> At(d.row, location_col)
          [] k = "Date" -> L
          [] OTHER ->
             LET cols == { col_map[j].col :
                             j \in { q \in DOMAIN col_map :
                                       /\ col_map[q].date = L
                                       /\ KeyOf(col_map[q].field) = k } }
             IN  IF cols = {} THEN EntryDefault(k)
                 ELSE At(d.row, CHOOSE x \in cols : \A y \in cols : y <= x)]

\* blank as the validity filter reads it
FilterBlank(x) ==
    RefBlank(x) \/ Lower(Strip(x)) = <<"n","a","n">>

DataRowOf(idx) ==
    data[CHOOSE j \in DOMAIN data : data[j].idx = idx]

\* the records of the rows other than the one of the replaced cell
OtherRows(df) ==
    SelectSeq(df, LAMBDA e :
        e["Employee Name"] # At(file.lines[edit.row + 1], employee_col))

\* C24: row reconstruction has no inter-row dependency. The entries of a data
\* row are determined by that row's cells and the role map alone: the output
\* is, row after row, one entry per date label whose bundle passes the
\* validity filter, each built from the cells of its own row; and replacing a
\* day-block cell of one row leaves the records of the other rows as they were.
C24_RowsIndependent ==
    /\ Reconstructing =>
        /\ \A i \in DOMAIN processed_rows :
              processed_rows[i] = RowLabelEntry(DataRowOf(origin[i]), processed_rows[i]["Date"])
        /\ \A j \in DOMAIN data : \A L \in DateLabels :
              j < r =>
                 (Emitted(data[j], L) <=>
                     \/ ~FilterBlank(BundleCell(data[j], L, "Activity Category"))
                     \/ ~FilterBlank(BundleCell(data[j], L, "Description")))
        /\ \A i \in DOMAIN processed_rows :
              \E j \in DOMAIN data : j < r /\ data[j].idx = origin[i]
    /\ Done /\ edit.kind \in {"work", "cell"} =>
        /\ result.msg = None
        /\ OtherRows(result.df) = OtherRows(base.df)

\* the second row gains a record when an Activity Category is written into its
\* empty block; the two records of the first row stay as they were
C24_Witness ==
    /\ Succeeded /\ edit.kind = "cell" /\ edit.row = data_start_idx + 1
    /\ Len(base.df) = 3 /\ Len(result.df) = 4
    /\ Len(OtherRows(result.df)) = 2
    /\ OtherRows(result.df) = OtherRows(base.df)
    /\ r = Len(data) + 1 /\ Len(processed_rows) = 4

----------------------------------------------------------------------------
(* The location column is filled on its own *)

\* the location of source row `row`: its own location cell when that is not
\* blank, else the location of the data row above, whoever the employee of
\* either row is; the missing value at the top of the data part
RECURSIVE FilledLocation(_)
FilledLocation(row) ==
    LET cell == At(df_raw[row + 1], location_col)
    IN  IF ~RefBlank(cell) THEN cell
        ELSE IF row <= data_start_idx THEN NaN
        ELSE FilledLocation(row - 1)

\* C25: Location is forward-filled independently of Employee Name. The
\* Location of a record is the nearest non-blank location cell at or above its
\* source row in the data part, also when that cell belongs to another
\* employee; a record above the first non-blank location cell has a missing
\* Location. The returned record set carries the same locations.
C25_LocationFill ==
    Reconstructing =>
        /\ \A i \in DOMAIN processed_rows :
              /\ processed_rows[i]["Location"] = FilledLocation(SourceRow(i))
              /\ (\A k \in data_start_idx..SourceRow(i) :
                     RefBlank(At(df_raw[k + 1], location_col)))
                   => processed_rows[i]["Location"] = NaN
        /\ Succeeded =>
              \A i \in DOMAIN result.df :
                 result.df[i]["Location"] = FilledLocation(SourceRow(i))

\* a second employee whose location cell is blank takes the location of the
\* first
C25_Witness ==
    /\ Succeeded
    /\ Len(result.df) = 2
    /\ SourceRow(2) = data_start_idx + 1
    /\ At(df_raw[SourceRow(1) + 1], employee_col) = T_Asha
    /\ At(df_raw[SourceRow(2) + 1], employee_col) = T_Ravi
    /\ RefBlank(At(df_raw[SourceRow(2) + 1], location_col))
    /\ result.df[1]["Employee Name"] # result.df[2]["Employee Name"]
    /\ result.df[2]["Location"] = T_Pune

\* a record above the first location cell has no location
C25_NullLocation ==
    /\ Succeeded
    /\ Len(result.df) = 2
    /\ result.df[1]["Location"] = NaN
    /\ result.df[2]["Location"] = T_Delhi

----------------------------------------------------------------------------
(* Blocks without activity and description *)

OtherFields ==
    {"Attendance_Status", "Task Priority", "Start Time", "End Time", "Work Time (Mins)"}

\* C26: a day block of a data row whose Activity Category and Description are
\* both blank produces no record, whatever its Attendance, Task Priority,
\* Start Time, End Time and Work Time cells hold: neither the entries of the
\* row loop nor the returned record set have a record of that row and date.
C26_AttendanceOnly ==
    Reconstructing =>
        \A j \in DOMAIN data : \A L \in DateLabels :
            ( /\ j < r
              /\ RefBlank(BundleCell(data[j], L, "Activity Category"))
              /\ RefBlank(BundleCell(data[j], L, "Description")) )
            => /\ ~Emitted(data[j], L)
               /\ Succeeded =>
                    /\ Len(result.df) = Len(processed_rows)
                    /\ ~\E i \in DOMAIN result.df :
                          origin[i] = data[j].idx /\ result.df[i]["Date"] = L

\* a first row with Attendance, Task Priority, times and Work Time filled but
\* neither activity nor description: the only record is that of the second row
C26_Witness ==
    /\ Succeeded
    /\ file \in AttendanceFiles
    /\ Len(data) = 2
    /\ \A f \in OtherFields : ~RefBlank(BundleCell(data[1], T_D1, f))
    /\ BundleCell(data[1], T_D1, "Attendance_Status") = T_Present
    /\ RefBlank(BundleCell(data[1], T_D1, "Activity Category"))
    /\ RefBlank(BundleCell(data[1], T_D1, "Description"))
    /\ Len(result.df) = 1
    /\ result.df[1]["Employee Name"] = T_Ravi

----------------------------------------------------------------------------
(* One record per date label and row *)

RecordsOfRow(idx) ==
    { i \in DOMAIN processed_rows : origin[i] = idx }

\* C27: a data row contributes at most one record per distinct date label.
\* When the same label heads two separated groups of columns they feed one
\* bundle, in which for each field the cell of the later column stands; the
\* records of a row are never more than the distinct date labels of the role
\* map.
C27_OnePerLabel ==
    Reconstructing =>
        /\ \A i, k \in DOMAIN processed_rows :
              ( /\ origin[i] = origin[k]
                /\ processed_rows[i]["Date"] = processed_rows[k]["Date"] ) => i = k
        /\ \A j \in DOMAIN data :
              Cardinality(RecordsOfRow(data[j].idx)) <= Cardinality(DateLabels)
        /\ \A i \in DOMAIN processed_rows :
              /\ processed_rows[i]["Date"] \in DateLabels
              /\ \A q \in DOMAIN col_map :
                    col_map[q].date = processed_rows[i]["Date"] =>
                       processed_rows[i][KeyOf(col_map[q].field)]
                         = BundleCell(DataRowOf(origin[i]),
                                      col_map[q].date, col_map[q].field)
        /\ Succeeded => Len(result.df) = Len(processed_rows)

\* three blocks under the labels D1, D2, D1: two records, and the record of
\* D1 carries the Activity Category of the third block, not of the first
C27_Witness ==
    /\ Succeeded
    /\ Len(col_map) = 6
    /\ col_map[1].date = T_D1 /\ col_map[3].date = T_D2 /\ col_map[5].date = T_D1
    /\ Cardinality(DateLabels) = 2
    /\ At(data[1].row, col_map[1].col) = T_Travel
    /\ At(data[1].row, col_map[5].col) = T_Demo
    /\ Len(result.df) = 2
    /\ result.df[1]["Date"] = T_D1
    /\ result.df[1]["Activity Category"] = T_Demo
    /\ result.df[2]["Date"] = T_D2

----------------------------------------------------------------------------
(* Cells that read "nan" *)

\* a cell that reads "nan" in some letter case once it is made text and trimmed
ReadsNan(x) ==
    Lower(Strip(Str(x))) = <<"n","a","n">>

----------------------------------------------------------------------------
(* Date labels over columns without a role *)

\* the day columns scanned so far whose field-axis cell matches no marker
Unmarked ==
    { col \in Scanned : col >= first_day_col /\ MarkersIn(FieldCell(col)) = {} }

\* the last column scanned
JustScanned ==
    (IF pc = "scan" THEN c ELSE total_cols) - 1

\* C29: a non-blank date-axis cell updates current_date even when the
\* field-axis cell of the same column matches no marker: the column is not
\* mapped, current_date is the cell's trimmed text once the column is scanned,
\* and every mapped column after it, up to the next non-blank date-axis cell,
\* carries that text.
C29_UnmarkedLabel ==
    Prepared =>
        \A col \in Unmarked :
            ~RefBlank(DateCell(col)) =>
                /\ ~Mapped(col)
                /\ col = JustScanned => current_date_str = Strip(DateCell(col))
                /\ \A j \in DOMAIN col_map :
                      ( /\ col_map[j].col > col
                        /\ \A k \in (col + 1)..col_map[j].col : RefBlank(DateCell(k)) )
                      => col_map[j].date = Strip(DateCell(col))

\* the same with a cell that reads "nan" counted as blank, as the scan does
C29_NanAsBlank ==
    Prepared =>
        \A col \in Unmarked :
            (~RefBlank(DateCell(col)) /\ ~ReadsNan(DateCell(col))) =>
                /\ ~Mapped(col)
                /\ col = JustScanned => current_date_str = Strip(DateCell(col))
                /\ \A j \in DOMAIN col_map :
                      ( /\ col_map[j].col > col
                        /\ \A k \in (col + 1)..col_map[j].col :
                              RefBlank(DateCell(k)) \/ ReadsNan(DateCell(k)) )
                      => col_map[j].date = Strip(DateCell(col))

\* a label over a Remarks column, then an Activity Category column without a
\* label: the record carries the label of the Remarks column
C29_LabelCarried ==
    /\ Succeeded
    /\ file \in AxisFiles
    /\ total_cols = first_day_col + 2
    /\ DateCell(first_day_col) = T_D2
    /\ FieldCell(first_day_col) = T_Remarks
    /\ RefBlank(DateCell(first_day_col + 1))
    /\ Len(col_map) = 1
    /\ col_map[1].col = first_day_col + 1
    /\ col_map[1].date = T_D2
    /\ Len(result.df) = 1
    /\ result.df[1]["Date"] = T_D2

\* a label "NAN" over a Remarks column, then an Activity Category column
\* without a label: nothing is mapped
C29_NanLabelLost ==
    /\ Done
    /\ file \in AxisFiles
    /\ total_cols = first_day_col + 2
    /\ DateCell(first_day_col) = T_NAN
    /\ FieldCell(first_day_col) = T_Remarks
    /\ RefBlank(DateCell(first_day_col + 1))
    /\ FieldCell(first_day_col + 1) = T_Activity
    /\ col_map = <<>>
    /\ current_date_str = None

----------------------------------------------------------------------------
(* Date labels left of the day columns *)

\* the day columns whose date-axis cell is non-blank
DayLabelColumns ==
    { k \in first_day_col..(total_cols - 1) : ~RefBlank(DateCell(k)) }

\* C30: a date label in columns 0 to 6 of the date axis is never used. The
\* scan starts at column 7 with current_date unset; the day columns before the
\* first non-blank date-axis cell at index >= 7 stay unmapped whatever columns
\* 0 to 6 hold; and the Date of every entry and of every returned record is
\* the trimmed text of a non-blank date-axis cell at a column >= 7.
C30_LeftLabelsUnused ==
    Prepared =>
        /\ (pc = "scan" /\ c = first_day_col) => (current_date_str = None /\ col_map = <<>>)
        /\ \A col \in Scanned :
              (\A k \in first_day_col..col : RefBlank(DateCell(k))) => ~Mapped(col)
        /\ \A j \in DOMAIN col_map :
              \E k \in DayLabelColumns :
                 k <= col_map[j].col /\ col_map[j].date = Strip(DateCell(k))
        /\ \A i \in DOMAIN processed_rows :
              \E k \in DayLabelColumns : processed_rows[i]["Date"] = Strip(DateCell(k))
        /\ Succeeded =>
              \A i \in DOMAIN result.df :
                 \E k \in DayLabelColumns : result.df[i]["Date"] = Strip(DateCell(k))

\* a label in column 3 of the date row, none over the Activity Category column
\* 7, and a label over the Description column 8: column 7 is not mapped and
\* the only record carries the label of column 8
C30_Witness ==
    /\ Succeeded
    /\ file \in LeftLabelFiles
    /\ DateCell(3) = T_D2
    /\ RefBlank(DateCell(first_day_col))
    /\ FieldCell(first_day_col) = T_Activity
    /\ DateCell(first_day_col + 1) = T_D1
    /\ Len(col_map) = 1
    /\ col_map[1].col = first_day_col + 1
    /\ Len(result.df) = 1
    /\ result.df[1]["Date"] = T_D1
    /\ result.df[1]["Activity Category"] = NaN
    /\ result.df[1]["Description"] = T_Demo

====
